---- MODULE Spec2Model ----
(***************************************************************************)
(* Model of the LLM pipeline of the property-listing backend:             *)
(*   - backend/services/chat_service.py : SQL generation, query execution, *)
(*     result summarisation and process_property_query;                    *)
(*   - backend/services/llm_service.py and backend/utils/property_parser.py*)
(*     : parse_property_text with validation and the rule-based fallback;  *)
(*   - backend/services/chat_service.py : the chat operations              *)
(*     stream_chat_text, stream_chat_with_confirmation, chat_with_image    *)
(*     and stream_property_query_steps, with intent detection;             *)
(*   - backend/utils/dependencies.py and backend/services/auth_service.py  *)
(*     : get_current_user, sessions and tokens.                            *)
(* Text is a sequence of one-character strings.  Confidence is counted in  *)
(* hundredths (0.3 is 30); numbers found in a text are counted in          *)
(* hundredths as well.                                                     *)
(***************************************************************************)
EXTENDS Integers, Sequences, FiniteSets, TLC

VARIABLES
    client,          \* ChatService.client / LLMService.client is not None
    qpc,             \* position of the query pipeline
    intent_data,     \* process_property_query: intent_data
    query_params,    \* process_property_query: query_params
    sql_reply,       \* the model's reply to the SQL-generation prompt
    sql_data,        \* result of _generate_sql_query (None or the parsed dict)
    store,           \* how the relational store behaves for this execution
    exec_arg,        \* the sql_data handed to _execute_sql_query
    query_results,   \* outcome of _execute_sql_query
    q_ret,           \* outcome of process_property_query
    gen_calls,       \* model calls made for SQL generation in this run
    db_executes,     \* db.execute calls made in this run
    sum_calls,       \* model calls made for summarisation in this run
    exec_runs,       \* invocations of _execute_sql_query in this run
    sum_runs,        \* invocations of _process_query_results in this run
    sessions_open,   \* database sessions acquired and not yet closed
    sum_reply,       \* the model's reply to the summarisation prompt
    ppc,             \* position of parse_property_text
    text,            \* parse_property_text: text
    llm_reply,       \* the model's reply to the parsing prompt
    llm_out,         \* outcome of _try_llm_parsing
    result,          \* the PropertyParsingResult being validated
    warnings,        \* _validate_parsing_result: warnings
    conf_before,     \* confidence before the validation check just made
    p_out,           \* outcome of parse_property_text
    fb_fault,        \* whether the rule-based extraction raised in this call
    c_op,            \* the public chat operation in progress
    cpc,             \* position of the chat operation
    message,         \* the user's message of the turn
    pending_intent,  \* the intent_data argument of the operation
    stream,          \* how the model's token stream behaves in this turn
    chunks_read,     \* chunks of the stream consumed so far
    full_response,   \* the reply collected so far
    chat_intent,     \* outcome of _extract_intent_from_response in this turn
    emitted,         \* chunks the operation has yielded to its caller
    c_out,           \* how the operation ended
    first_run,       \* what the first run of a turn gave, when the turn is run again
    awaiting,        \* the intent the conversation's last turn asked the user to confirm
    auth_sessions,   \* user_sessions table: token -> expiry time, 0 if no record
    users,           \* users table: the user ids that have a row
    now,             \* datetime.utcnow()
    request,         \* the request being handled: endpoint and credentials
    auth_response    \* what the request got: Pending, served or rejected

vars == <<client, qpc, intent_data, query_params, sql_reply, sql_data, store, exec_arg,
          query_results, q_ret, gen_calls, db_executes, sum_calls, exec_runs,
          sum_runs, sessions_open, ppc, text, llm_reply, llm_out, result,
          warnings, conf_before, p_out, fb_fault, sum_reply, c_op, cpc, message,
          pending_intent, stream, chunks_read, full_response, chat_intent,
          emitted, c_out, first_run, awaiting, auth_sessions, users, now, request,
          auth_response>>

qvars == <<qpc, intent_data, query_params, sql_reply, sql_data, store, exec_arg,
           query_results, q_ret, gen_calls, db_executes, sum_calls, exec_runs,
           sum_runs, sessions_open, sum_reply>>

pvars == <<ppc, text, llm_reply, llm_out, result, warnings, conf_before, p_out,
           fb_fault>>

cvars == <<c_op, cpc, message, pending_intent, stream, chunks_read, full_response,
           chat_intent, emitted, c_out, first_run, awaiting>>

avars == <<auth_sessions, users, now, request, auth_response>>

(***************************************************************************)
(* Outcomes of a call: a returned value or a raised exception.             *)
(***************************************************************************)
Return(v) == [kind |-> "return", value |-> v]

Raise(e) == [kind |-> "raise", exc |-> e]

None == [none |-> TRUE]

Pending == [pending |-> TRUE]

(***************************************************************************)
(* Strings.                                                                *)
(***************************************************************************)
Whitespace == {" ", "\n", "\t"}

UpperChar(c) ==
    CASE c = "s" -> "S" [] c = "e" -> "E" [] c = "l" -> "L" [] c = "c" -> "C"
      [] c = "t" -> "T" [] c = "d" -> "D" [] c = "r" -> "R" [] c = "o" -> "O"
      [] c = "p" -> "P" [] c = "x" -> "X" [] OTHER -> c

LowerChar(c) ==
    CASE c = "S" -> "s" [] c = "E" -> "e" [] c = "L" -> "l" [] c = "C" -> "c"
      [] c = "T" -> "t" [] c = "D" -> "d" [] c = "R" -> "r" [] c = "O" -> "o"
      [] c = "P" -> "p" [] c = "X" -> "x" [] OTHER -> c

Upper(s) == [i \in 1..Len(s) |-> UpperChar(s[i])]

Lower(s) == [i \in 1..Len(s) |-> LowerChar(s[i])]

RECURSIVE LStrip(_)
LStrip(s) == IF s # <<>> /\ Head(s) \in Whitespace THEN LStrip(Tail(s)) ELSE s

RECURSIVE RStrip(_)
RStrip(s) ==
    IF s # <<>> /\ s[Len(s)] \in Whitespace
    THEN RStrip(SubSeq(s, 1, Len(s) - 1))
    ELSE s

Strip(s) == RStrip(LStrip(s))

StartsWith(s, p) == Len(s) >= Len(p) /\ SubSeq(s, 1, Len(p)) = p

SELECT == <<"S", "E", "L", "E", "C", "T">>

(***************************************************************************)
(* Bounds and program constants of the query pipeline.                     *)
(***************************************************************************)
MaxRows == 22

MAX_RESULTS == 20

(***************************************************************************)
(* Statements the model may emit: optional leading whitespace, a first     *)
(* word, an optional tail.                                                 *)
(***************************************************************************)
SqlLeads == {<<>>, <<"\n", " ">>}

SqlWords ==
    { SELECT,
      <<"s", "e", "l", "e", "c", "t">>,
      <<"S", "e", "l", "e", "c", "t">>,
      <<"S", "E", "L", "E", "C", "T", "X">>,
      <<"s", "e", "l", "e", "c", "t", "e", "d">>,
      <<"S", "E", "L", "E", "C">>,
      <<"D", "R", "O", "P">>,
      <<"d", "r", "o", "p", " ", "S", "E", "L", "E", "C", "T">>,
      <<>> }

SqlTails == {<<>>, <<" ", "*", " ">>}

SqlTexts == {l \o w \o t : l \in SqlLeads, w \in SqlWords, t \in SqlTails}

\* the value under key "sql" of the JSON object: absent, null, a number or a string
SqlFields ==
    {[tag |-> g, str |-> <<>>] : g \in {"missing", "null", "number"}}
        \cup {[tag |-> "string", str |-> s] : s \in SqlTexts}

SqlDicts == {[sql |-> f, params |-> "params"] : f \in SqlFields}

GoodDict == [sql |-> [tag |-> "string", str |-> SELECT \o <<" ", "*">>], params |-> "params"]

\* what re.findall returns for the reply: the captured blocks, in order
Unparsable == [parses |-> FALSE, obj |-> GoodDict]

FirstMatches == {[parses |-> TRUE, obj |-> d] : d \in SqlDicts} \cup {Unparsable}

MatchSeqs ==
    {<<>>} \cup {<<m>> : m \in FirstMatches}
        \cup {<<m, [parses |-> TRUE, obj |-> GoodDict]>> : m \in FirstMatches}

SqlReplies ==
    {[kind |-> "api_error", matches |-> <<>>], [kind |-> "no_content", matches |-> <<>>]}
        \cup {[kind |-> "content", matches |-> ms] : ms \in MatchSeqs}

(***************************************************************************)
(* _generate_sql_query                                                     *)
(***************************************************************************)
\* sql_data.get("sql", "").strip().upper(), AttributeError on a non-string
SqlOfGenerated(d) ==
    CASE d.sql.tag = "missing" -> Return(Upper(Strip(<<>>)))
      [] d.sql.tag = "string" -> Return(Upper(Strip(d.sql.str)))
      [] OTHER -> Raise("AttributeError")

\* the safety check of the generator
GeneratorAccepts(sql) == StartsWith(sql, SELECT)

\* the body of the try block
GenerateSqlBody(reply) ==
    CASE reply.kind = "api_error" -> Raise("APIError")
      [] reply.kind = "no_content" -> Raise("TypeError")
      [] OTHER ->
            IF reply.matches = <<>>
            THEN Return(None)
            ELSE LET m == reply.matches[1] IN
                 IF ~m.parses
                 THEN Raise("JSONDecodeError")
                 ELSE LET sql == SqlOfGenerated(m.obj) IN
                      IF sql.kind = "raise"
                      THEN sql
                      ELSE IF GeneratorAccepts(sql.value)
                           THEN Return(m.obj)
                           ELSE Return(None)

GenerateSqlQuery(cl, reply) ==
    IF ~cl
    THEN Return(None)
    ELSE LET o == GenerateSqlBody(reply) IN
         IF o.kind = "raise" THEN Return(None) ELSE o

(***************************************************************************)
(* The relational store and the values of its rows.                        *)
(***************************************************************************)
IntV(n) == [t |-> "int", v |-> n]

DecimalV(n) == [t |-> "decimal", v |-> n]

DatetimeV(n) == [t |-> "datetime", v |-> n]

BoolV(n) == [t |-> "bool", v |-> n]

StrV(n) == [t |-> "str", v |-> n]

NullV == [t |-> "null", v |-> 0]

Shapes == {"listing", "image"}

StoreRow(i, shape) ==
    CASE shape = "listing" ->
            [id |-> IntV(i), community_name |-> StrV(i), price |-> DecimalV(100 * i),
             floor_info |-> NullV, created_at |-> DatetimeV(i)]
      [] OTHER ->
            [file_path |-> StrV(i), is_primary |-> BoolV(i % 2), thumbnail |-> NullV]

StoreRows(n, shape) == [i \in 1..n |-> StoreRow(i, shape)]

StoreBehaviours ==
    {[session_ok |-> FALSE, exec_ok |-> FALSE, nrows |-> 0, shape |-> "listing"],
     [session_ok |-> TRUE, exec_ok |-> FALSE, nrows |-> 0, shape |-> "listing"]}
        \cup {[session_ok |-> TRUE, exec_ok |-> TRUE, nrows |-> n, shape |-> sh] :
                n \in 0..MaxRows, sh \in Shapes}

(***************************************************************************)
(* _execute_sql_query                                                      *)
(***************************************************************************)
HasIsoformat(val) == val.t \in {"datetime", "date", "time"}

\* hasattr(value, '__float__'): Decimal and float, and also int and bool
HasFloat(val) == val.t \in {"decimal", "float", "int", "bool"}

ConvertValue(val) ==
    IF HasIsoformat(val)
    THEN [t |-> "isostring", v |-> val.v]
    ELSE IF HasFloat(val)
         THEN [t |-> "float", v |-> val.v]
         ELSE val

ConvertRow(row) == [c \in DOMAIN row |-> ConvertValue(row[c])]

\* mutant: the slice is forgotten
Mut_Truncate(rows) == rows

\* query_results[:20]
Truncate(rows) ==
    IF Len(rows) <= MAX_RESULTS THEN rows ELSE SubSeq(rows, 1, MAX_RESULTS)

\* mutant: the executor trusts the generator and checks nothing
Mut_ExecutorRejects(sql) == FALSE

\* the second safety check: not sql.strip().upper().startswith("SELECT")
ExecutorRejects(sql) == ~StartsWith(Upper(Strip(sql)), SELECT)

\* the body of the try block; db is set once next(db_gen) has returned
ExecuteSqlBody(sd, st) ==
    IF ~st.session_ok
    THEN [out |-> Raise("OperationalError"), db |-> FALSE, executed |-> 0]
    ELSE IF sd.sql.tag # "string"
         THEN [out |-> Raise("AttributeError"), db |-> TRUE, executed |-> 0]
         ELSE IF ExecutorRejects(sd.sql.str)
              THEN [out |-> Return(<<>>), db |-> TRUE, executed |-> 0]
              ELSE IF ~st.exec_ok
                   THEN [out |-> Raise("DatabaseError"), db |-> TRUE, executed |-> 1]
                   ELSE LET rows == StoreRows(st.nrows, st.shape)
                            converted == [i \in 1..Len(rows) |-> ConvertRow(rows[i])]
                        IN [out |-> Return(Truncate(converted)), db |-> TRUE, executed |-> 1]

\* mutant: the error is logged and raised again
Mut_ExecuteHandler(o) == o

\* except Exception: return []
ExecuteHandler(o) == IF o.kind = "raise" THEN Return(<<>>) ELSE o

\* mutant: the session is closed at the end of the try block, not in a
\* finally clause
Mut_ExecuteSqlQuery(sd, st) ==
    LET b == ExecuteSqlBody(sd, st) IN
    [out |-> ExecuteHandler(b.out),
     executed |-> b.executed,
     opened |-> IF b.db THEN 1 ELSE 0,
     closed |-> IF b.db /\ b.out.kind = "return" THEN 1 ELSE 0]

\* finally: if 'db' in locals(): db.close()
ExecuteSqlQuery(sd, st) ==
    LET b == ExecuteSqlBody(sd, st) IN
    [out |-> ExecuteHandler(b.out),
     executed |-> b.executed,
     opened |-> IF b.db THEN 1 ELSE 0,
     closed |-> IF b.db THEN 1 ELSE 0]

(***************************************************************************)
(* _process_query_results                                                  *)
(***************************************************************************)
\* the texts of lines 446 and 469, the second followed by str(e)
ServiceDownMsg == "error: chat service is not initialised"

SummaryFailedMsg == "query completed, but processing the results failed: "

SummaryReplies ==
    {[kind |-> "api_error", content |-> "timeout"],
     [kind |-> "api_error", content |-> "connection refused"],
     [kind |-> "content", content |-> "answer one"],
     [kind |-> "content", content |-> "answer two"]}

\* mutant: a failed summarization gives the bare error text
Mut_ProcessQueryResults(cl, reply) == Return(<<reply.content>>)

ProcessQueryResults(cl, reply) ==
    IF ~cl
    THEN Return(<<ServiceDownMsg>>)
    ELSE IF reply.kind = "api_error"
         THEN Return(<<SummaryFailedMsg, reply.content>>)
         ELSE Return(<<reply.content>>)

(***************************************************************************)
(* process_property_query                                                  *)
(***************************************************************************)
\* the error text of a failed generation (chat_service.py line 560)
GenFailMsg == "sql generation failed, please describe your request again"

\* the fixed advisory message of an empty result (chat_service.py line 574)
NoResultMsg == "no listing matches; widen the price range, consider other areas, adjust the room type"

EmptyParams == "{}"

Intents ==
    {[has_query_params |-> FALSE, query_params |-> EmptyParams],
     [has_query_params |-> TRUE, query_params |-> EmptyParams],
     [has_query_params |-> TRUE, query_params |-> "{property_type: sale, community: Jinhuayuan}"]}

NoIntent == [has_query_params |-> FALSE, query_params |-> EmptyParams]

\* intent_data.get("query_params", {})
GetQueryParams(intent) ==
    IF intent.has_query_params THEN intent.query_params ELSE EmptyParams

\* mutant: a failed generation is reported as an empty result
Mut_GenerationFailure(qp) ==
    [success |-> TRUE, found_count |-> 0, query_params |-> qp, results |-> <<>>,
     message |-> NoResultMsg]

GenerationFailure(qp) ==
    [success |-> FALSE, error |-> GenFailMsg, query_params |-> qp]

ZeroResults(qp, sd) ==
    [success |-> TRUE, found_count |-> 0, query_params |-> qp, sql_info |-> sd,
     results |-> <<>>, message |-> NoResultMsg]

\* the outer except of process_property_query; the text is followed by str(e)
QueryError(qp, e) ==
    [success |-> FALSE, error |-> <<"the query process hit an error: ", e>>,
     query_params |-> qp]

\* mutant: a failed generation is not singled out, the run goes on to execution
Mut_NoSqlData(sd) == FALSE

\* "if not sql_data" and "if not query_results"
NoSqlData(sd) == sd = None

\* mutant: the empty case is not singled out
Mut_NoRows(rows) == FALSE

NoRows(rows) == Len(rows) = 0

FullResults(qp, sd, rows, answer) ==
    [success |-> TRUE, found_count |-> Len(rows), query_params |-> qp,
     sql_info |-> sd, results |-> rows, formatted_answer |-> answer]

NoStore == [session_ok |-> FALSE, exec_ok |-> FALSE, nrows |-> 0, shape |-> "listing"]

NoReply == [kind |-> "none", matches |-> <<>>]

NoSummary == [kind |-> "none", content |-> ""]

QueryIdle ==
    /\ qpc = "idle"
    /\ intent_data = NoIntent
    /\ query_params = EmptyParams
    /\ sql_reply = NoReply
    /\ sql_data = Pending
    /\ store = NoStore
    /\ exec_arg = Pending
    /\ query_results = Pending
    /\ q_ret = Pending
    /\ gen_calls = 0
    /\ db_executes = 0
    /\ sum_calls = 0
    /\ exec_runs = 0
    /\ sum_runs = 0
    /\ sessions_open = 0
    /\ sum_reply = NoSummary

\* the pipeline's variables at the entry of a run for an intent
EnterQuery(intent, pc) ==
    /\ qpc' = pc
    /\ intent_data' = intent
    /\ query_params' = GetQueryParams(intent)
    /\ sql_reply' = NoReply
    /\ sql_data' = Pending
    /\ store' = NoStore
    /\ exec_arg' = Pending
    /\ query_results' = Pending
    /\ q_ret' = Pending
    /\ gen_calls' = 0
    /\ db_executes' = 0
    /\ sum_calls' = 0
    /\ exec_runs' = 0
    /\ sum_runs' = 0
    /\ sessions_open' = 0
    /\ sum_reply' = NoSummary

\* process_property_query is entered: lines 546-553
StartQuery(intent) == EnterQuery(intent, "generate")

\* a caller enters process_property_query with an intent
ProcessQuery_Start(intent) ==
    /\ qpc = "idle"
    /\ StartQuery(intent)
    /\ UNCHANGED <<client, cvars, avars, pvars>>

\* sql_data = await self._generate_sql_query(query_params); if not sql_data: return
ProcessQuery_Generate(reply) ==
    /\ qpc = "generate"
    /\ LET o == GenerateSqlQuery(client, reply) IN
       /\ sql_reply' = reply
       /\ sql_data' = o.value
       /\ gen_calls' = IF client THEN gen_calls + 1 ELSE gen_calls
       /\ IF NoSqlData(o.value)
          THEN /\ q_ret' = Return(GenerationFailure(query_params))
               /\ qpc' = "done"
          ELSE /\ q_ret' = q_ret
               /\ qpc' = "execute"
    /\ UNCHANGED <<client, cvars, avars, intent_data, query_params, store, exec_arg,
                   query_results, db_executes, sum_calls, exec_runs, sum_runs,
                   sessions_open, sum_reply, pvars>>

\* query_results = self._execute_sql_query(sql_data); if not query_results: return
ProcessQuery_Execute(st) ==
    /\ qpc = "execute"
    /\ LET r == ExecuteSqlQuery(sql_data, st) IN
       /\ store' = st
       /\ exec_arg' = sql_data
       /\ query_results' = r.out
       /\ db_executes' = db_executes + r.executed
       /\ exec_runs' = exec_runs + 1
       /\ sessions_open' = sessions_open + r.opened - r.closed
       /\ IF r.out.kind = "raise"
          THEN /\ q_ret' = Return(QueryError(query_params, r.out.exc))
               /\ qpc' = "done"
          ELSE IF NoRows(r.out.value)
               THEN /\ q_ret' = Return(ZeroResults(query_params, sql_data))
                    /\ qpc' = "done"
               ELSE /\ q_ret' = q_ret
                    /\ qpc' = "summarize"
    /\ UNCHANGED <<client, cvars, avars, intent_data, query_params, sql_reply, sql_data,
                   gen_calls, sum_calls, sum_runs, sum_reply, pvars>>

\* final_answer = await self._process_query_results(query_results, user_query)
ProcessQuery_Summarize(reply) ==
    /\ qpc = "summarize"
    /\ LET a == ProcessQueryResults(client, reply) IN
       q_ret' = Return(FullResults(query_params, sql_data, query_results.value, a.value))
    /\ sum_calls' = IF client THEN sum_calls + 1 ELSE sum_calls
    /\ sum_runs' = sum_runs + 1
    /\ sum_reply' = reply
    /\ qpc' = "done"
    /\ UNCHANGED <<client, cvars, avars, intent_data, query_params, sql_reply, sql_data, store,
                   exec_arg, query_results, gen_calls, db_executes, exec_runs,
                   sessions_open, pvars>>

\* the caller has the outcome; the pipeline holds nothing of the run
Finish ==
    /\ qpc \in {"done", "direct_done"}
    /\ qpc' = "idle"
    /\ intent_data' = NoIntent
    /\ query_params' = EmptyParams
    /\ sql_reply' = NoReply
    /\ sql_data' = Pending
    /\ store' = NoStore
    /\ exec_arg' = Pending
    /\ query_results' = Pending
    /\ q_ret' = Pending
    /\ gen_calls' = 0
    /\ db_executes' = 0
    /\ sum_calls' = 0
    /\ exec_runs' = 0
    /\ sum_runs' = 0
    /\ sessions_open' = 0
    /\ sum_reply' = NoSummary
    /\ UNCHANGED <<client, cvars, avars, pvars>>

\* _execute_sql_query called on its own with any sql_data
ExecuteSqlQuery_Direct(sd, st) ==
    /\ qpc = "idle"
    /\ LET r == ExecuteSqlQuery(sd, st) IN
       /\ query_results' = r.out
       /\ db_executes' = r.executed
       /\ sessions_open' = r.opened - r.closed
    /\ qpc' = "direct_done"
    /\ store' = st
    /\ exec_arg' = sd
    /\ exec_runs' = 1
    /\ intent_data' = NoIntent
    /\ query_params' = EmptyParams
    /\ sql_reply' = NoReply
    /\ sql_data' = Pending
    /\ q_ret' = Pending
    /\ gen_calls' = 0
    /\ sum_calls' = 0
    /\ sum_runs' = 0
    /\ sum_reply' = NoSummary
    /\ UNCHANGED <<client, cvars, avars, pvars>>

(***************************************************************************)
(* Listing texts.  A Chinese character is written as its pinyin with the   *)
(* tone number: "zu1" is the character of RENT_KEYWORDS[0], "shou4" the    *)
(* one of SALE_KEYWORDS[0].  Digits, "." and "," stand for themselves.     *)
(***************************************************************************)
\* RENT_KEYWORDS and SALE_KEYWORDS of PropertyParsingValidator
RENT_KEYWORDS ==
    << <<"zu1">>, <<"chu1", "zu1">>, <<"yue4", "zu1">>, <<"ya1", "jin1">>,
       <<"yue4", "fu4">>, <<"zu1", "jin1">>, <<"zu1", "fang2">>,
       <<"ya1", "yi1", "fu4", "san1">>, <<"ya1", "er4", "fu4", "yi1">>,
       <<"ya1", "yi1", "fu4", "yi1">>, <<"bao1", "shui3", "dian4">>,
       <<"zhong1", "jie4", "fei4">> >>

SALE_KEYWORDS ==
    << <<"shou4">>, <<"chu1", "shou4">>, <<"wan4", "yuan2">>, <<"zong3", "jia4">>,
       <<"shou3", "fu4">>, <<"an4", "jie1">>, <<"shou4", "fang2">>,
       <<"mai3", "fang2">>, <<"fang2", "jia4">>, <<"dan1", "jia4">>,
       <<"ping2", "mi3">>, <<"dai4", "kuan3">>, <<"guo4", "hu4">>,
       <<"shui4", "fei4">> >>

Texts ==
    { <<"chu1", "zu1", "3", "0", "0", "0">>,
      <<"chu1", "shou4", ",", "5", "0", "0", "0", "0", "0">>,
      <<"fang2">>,
      <<"zu1", ",", "shou4">>,
      <<"yue4", "zu1", "2", "8", "0", "0", "yuan2", ",", "ya1", "yi1", "fu4", "san1">>,
      <<"zong3", "jia4", "1", "5", "0", "wan4", "yuan2">>,
      <<"zu1", "jin1", "2", ".", "5", "wan4", "yuan2">>,
      <<>> }

Digits == {"0", "1", "2", "3", "4", "5", "6", "7", "8", "9"}

DigitVal(c) ==
    CASE c = "0" -> 0 [] c = "1" -> 1 [] c = "2" -> 2 [] c = "3" -> 3
      [] c = "4" -> 4 [] c = "5" -> 5 [] c = "6" -> 6 [] c = "7" -> 7
      [] c = "8" -> 8 [] OTHER -> 9

\* \w of the regular expressions: everything but white space and punctuation
IsW(c) == c \notin (Whitespace \cup {",", ".", "/", ";", "*"})

MatchesAt(t, i, kw) ==
    /\ i >= 1
    /\ i + Len(kw) - 1 <= Len(t)
    /\ SubSeq(t, i, i + Len(kw) - 1) = kw

\* keyword in text
Contains(t, kw) == \E i \in 1..(Len(t) + 1) : MatchesAt(t, i, kw)

\* re.search(rf'\b{keyword}\b', text): the keyword between two word boundaries
WholeWord(t, kw) ==
    \E i \in 1..Len(t) :
        /\ MatchesAt(t, i, kw)
        /\ i = 1 \/ ~IsW(t[i - 1])
        /\ i + Len(kw) - 1 = Len(t) \/ ~IsW(t[i + Len(kw)])

RECURSIVE ScoreFrom(_, _, _)
ScoreFrom(t, kws, k) ==
    IF k > Len(kws)
    THEN 0
    ELSE (IF Contains(t, kws[k])
          THEN 1 + (IF WholeWord(t, kws[k]) THEN 1 ELSE 0)
          ELSE 0) + ScoreFrom(t, kws, k + 1)

\* _calculate_keyword_score
CalculateKeywordScore(t, kws) == ScoreFrom(Lower(t), kws, 1)

RECURSIVE CountFrom(_, _, _)
CountFrom(t, kws, k) ==
    IF k > Len(kws)
    THEN 0
    ELSE (IF Contains(t, kws[k]) THEN 1 ELSE 0) + CountFrom(t, kws, k + 1)

\* the end of the run of digits that starts at i
RECURSIVE DigitRunEnd(_, _)
DigitRunEnd(t, i) ==
    IF i + 1 <= Len(t) /\ t[i + 1] \in Digits THEN DigitRunEnd(t, i + 1) ELSE i

RECURSIVE IntOf(_, _, _)
IntOf(t, i, j) == IF i > j THEN 0 ELSE IntOf(t, i, j - 1) * 10 + DigitVal(t[j])

\* the match of \d+(?:\.\d+)? that starts at i: its end and float(), in hundredths
\* (the fraction is read to two places)
NumberAt(t, i) ==
    LET j == DigitRunEnd(t, i)
        frac == j + 2 <= Len(t) /\ t[j + 1] = "." /\ t[j + 2] \in Digits
        k == IF frac THEN DigitRunEnd(t, j + 2) ELSE j
        d1 == IF frac THEN DigitVal(t[j + 2]) ELSE 0
        d2 == IF frac /\ k >= j + 3 THEN DigitVal(t[j + 3]) ELSE 0
    IN [end |-> k, intend |-> j, value |-> IntOf(t, i, j) * 100 + d1 * 10 + d2,
        intvalue |-> IntOf(t, i, j) * 100]

\* re.findall(r'\d+(?:\.\d+)?', text), as floats
RECURSIVE NumbersFrom(_, _)
NumbersFrom(t, i) ==
    IF i > Len(t)
    THEN <<>>
    ELSE IF t[i] \in Digits
         THEN LET n == NumberAt(t, i) IN <<n.value>> \o NumbersFrom(t, n.end + 1)
         ELSE NumbersFrom(t, i + 1)

Numbers(t) == NumbersFrom(t, 1)

RECURSIVE MaxOf(_)
MaxOf(ns) ==
    IF Len(ns) = 1
    THEN ns[1]
    ELSE LET m == MaxOf(Tail(ns)) IN IF ns[1] >= m THEN ns[1] ELSE m

(***************************************************************************)
(* PropertyParsingValidator                                                *)
(***************************************************************************)
ValidationResult(ok, msg, sugg) == [is_valid |-> ok, message |-> msg, suggestions |-> sugg]

\* mutant: the price context never supports the stated type
Mut_ValidatePriceContext(t, parsed_type) ==
    ValidationResult(FALSE, "price looks like the other type", <<>>)

\* _validate_price_context: the largest number of the text against the type
ValidatePriceContext(t, parsed_type) ==
    LET numbers == Numbers(t) IN
    IF numbers = <<>>
    THEN ValidationResult(TRUE, "no price found", <<>>)
    ELSE LET max_price == MaxOf(numbers) IN
         IF parsed_type = "rent"
         THEN IF 500 * 100 <= max_price /\ max_price <= 20000 * 100
              THEN ValidationResult(TRUE, "price fits rent", <<>>)
              ELSE IF max_price > 100000 * 100
                   THEN ValidationResult(FALSE, "price looks like a sale price", <<>>)
                   ELSE ValidationResult(TRUE, "price context passed", <<>>)
         ELSE IF max_price >= 300000 * 100
              THEN ValidationResult(TRUE, "price fits sale", <<>>)
              ELSE IF max_price <= 50000 * 100
                   THEN ValidationResult(FALSE, "price looks like a rent", <<>>)
                   ELSE ValidationResult(TRUE, "price context passed", <<>>)

\* validate_property_type
ValidatePropertyType(t, parsed_type) ==
    LET rent_score == CalculateKeywordScore(t, RENT_KEYWORDS)
        sale_score == CalculateKeywordScore(t, SALE_KEYWORDS)
        price_validation == ValidatePriceContext(t, parsed_type)
    IN IF parsed_type = "rent"
       THEN IF rent_score >= sale_score \/ price_validation.is_valid
            THEN ValidationResult(TRUE, "type is right: rent", <<>>)
            ELSE ValidationResult(FALSE, "type may be wrong, check whether it is a sale",
                                  <<"check the text for sale information",
                                    "check whether the price is a sale price">>)
       ELSE IF sale_score >= rent_score \/ price_validation.is_valid
            THEN ValidationResult(TRUE, "type is right: sale", <<>>)
            ELSE ValidationResult(FALSE, "type may be wrong, check whether it is a rent",
                                  <<"check the text for rent information",
                                    "check whether the price is a rent">>)

\* validate_price_range: price is None or a number in hundredths; out of the
\* range the result is still valid and carries two suggestions
ValidatePriceRange(property_type, price) ==
    IF price.tag = "null"
    THEN ValidationResult(TRUE, "no price, skipped", <<>>)
    ELSE LET lo == IF property_type = "rent" THEN 100 * 100 ELSE 1 * 100
             hi == IF property_type = "rent" THEN 50000 * 100 ELSE 10000 * 100
         IN IF lo <= price.v /\ price.v <= hi
            THEN ValidationResult(TRUE, "price in range", <<>>)
            ELSE ValidationResult(TRUE, "price",
                                  <<"unusual price, check the unit", "usual range">>)

(***************************************************************************)
(* PropertyParsingFallback                                                 *)
(***************************************************************************)
\* _guess_property_type
GuessPropertyType(t) ==
    LET rent_count == CountFrom(t, RENT_KEYWORDS, 1)
        sale_count == CountFrom(t, SALE_KEYWORDS, 1)
    IN IF rent_count >= sale_count THEN "rent" ELSE "sale"

NoPrice == [tag |-> "null", v |-> 0]

PriceOf(n) == [tag |-> "number", v |-> n]

\* a number starting at i and followed by the characters of unit: the number
\* with its fraction, else its integer part alone when the unit follows that
NumberThenUnit(t, i, unit) ==
    LET n == NumberAt(t, i) IN
    IF MatchesAt(t, n.end + 1, unit)
    THEN PriceOf(n.value)
    ELSE IF MatchesAt(t, n.intend + 1, unit) THEN PriceOf(n.intvalue) ELSE NoPrice

\* re.search of (\d+(?:\.\d+)?) followed by unit: the leftmost match
RECURSIVE SearchNumberUnit(_, _, _)
SearchNumberUnit(t, i, unit) ==
    IF i > Len(t)
    THEN NoPrice
    ELSE IF t[i] \in Digits /\ NumberThenUnit(t, i, unit) # NoPrice
         THEN NumberThenUnit(t, i, unit)
         ELSE SearchNumberUnit(t, i + 1, unit)

\* re.search of a prefix followed by (\d+(?:\.\d+)?): the leftmost match
RECURSIVE SearchPrefixNumber(_, _, _)
SearchPrefixNumber(t, i, prefix) ==
    IF i > Len(t)
    THEN NoPrice
    ELSE IF MatchesAt(t, i, prefix) /\ i + Len(prefix) <= Len(t)
               /\ t[i + Len(prefix)] \in Digits
         THEN PriceOf(NumberAt(t, i + Len(prefix)).value)
         ELSE SearchPrefixNumber(t, i + 1, prefix)

\* r'月租[金]?(\d+(?:\.\d+)?)': the leftmost match, the longer prefix first
RECURSIVE SearchMonthlyRent(_, _)
SearchMonthlyRent(t, i) ==
    IF i > Len(t)
    THEN NoPrice
    ELSE LET long == <<"yue4", "zu1", "jin1">>
             short == <<"yue4", "zu1">>
         IN IF MatchesAt(t, i, long) /\ i + 3 <= Len(t) /\ t[i + 3] \in Digits
            THEN PriceOf(NumberAt(t, i + 3).value)
            ELSE IF MatchesAt(t, i, short) /\ i + 2 <= Len(t) /\ t[i + 2] \in Digits
                 THEN PriceOf(NumberAt(t, i + 2).value)
                 ELSE SearchMonthlyRent(t, i + 1)

\* _extract_price
ExtractPrice(t) ==
    LET p1 == SearchNumberUnit(t, 1, <<"wan4", "yuan2">>)
        p2 == SearchNumberUnit(t, 1, <<"yuan2", "/", "yue4">>)
        p3 == SearchMonthlyRent(t, 1)
        p4 == SearchPrefixNumber(t, 1, <<"zu1", "jin1">>)
    IN IF p1 # NoPrice THEN p1
       ELSE IF p2 # NoPrice THEN p2
       ELSE IF p3 # NoPrice THEN p3
       ELSE IF p4 # NoPrice THEN p4
       ELSE IF Numbers(t) # <<>> THEN PriceOf(MaxOf(Numbers(t)))
       ELSE NoPrice

\* the rule-based extraction of one call may raise (a text that is not a
\* string makes "keyword in text" raise TypeError)
ExtractionFaults == BOOLEAN

\* PropertyParsingFallback.create_fallback_result: the fields that reach the
\* PropertyParsingResult and are decided by property type, price and confidence
FallbackData(t, fault) ==
    IF fault
    THEN Raise("TypeError")
    ELSE Return([property_type |-> GuessPropertyType(t), price |-> ExtractPrice(t),
                 confidence |-> 30])

\* its except branch
FallbackDataHandler(o) ==
    IF o.kind = "raise"
    THEN Return([property_type |-> "rent", price |-> NoPrice, confidence |-> 0])
    ELSE o

(***************************************************************************)
(* LLMService                                                              *)
(***************************************************************************)
\* a warning is the sequence of the pieces its text is made of
Plain(msg) == <<msg>>

Prefixed(label, msg) == <<label, msg>>

\* map(Plain, suggestions)
RECURSIVE PlainAll(_)
PlainAll(ss) == IF ss = <<>> THEN <<>> ELSE <<Plain(Head(ss))>> \o PlainAll(Tail(ss))

FallbackWarning == "fallback was used, check the result by hand"

TotalFailureWarning == "parsing failed completely, fill in by hand"

\* mutant: is_fallback and the warning are left at their defaults
Mut_MakeFallbackResult(data) ==
    [property_type |-> data.property_type, price |-> data.price,
     confidence |-> data.confidence,
     validation_warnings |-> <<>>, is_fallback |-> FALSE]

\* PropertyParsingResult(...) of _create_fallback_result
MakeFallbackResult(data) ==
    [property_type |-> data.property_type, price |-> data.price,
     confidence |-> data.confidence,
     validation_warnings |-> <<Plain(FallbackWarning)>>, is_fallback |-> TRUE]

BasicResult ==
    [property_type |-> "rent", price |-> NoPrice, confidence |-> 0,
     validation_warnings |-> <<Plain(TotalFailureWarning)>>, is_fallback |-> TRUE]

\* mutant: no handler around the extraction, whose max() of the numbers of
\* the text is taken without the "if numbers" guard
Mut_CreateFallbackResult(t, fault) ==
    IF Numbers(t) = <<>> \/ fault
    THEN Raise("ValueError")
    ELSE Return(MakeFallbackResult(FallbackData(t, fault).value))

\* _create_fallback_result
CreateFallbackResult(t, fault) ==
    LET d == FallbackDataHandler(FallbackData(t, fault)) IN
    IF d.kind = "raise" THEN Return(BasicResult) ELSE Return(MakeFallbackResult(d.value))

\* the fields of the JSON object the model returns
TypeFields ==
    {[tag |-> g, v |-> "rent"] : g \in {"missing", "null"}}
        \cup {[tag |-> "string", v |-> x] : x \in {"rent", "sale", "both"}}

PriceFields ==
    {[tag |-> g, v |-> 0] : g \in {"null", "bad"}}
        \cup {[tag |-> "number", v |-> x] : x \in {50 * 100, 3000 * 100, 60000 * 100}}

ConfidenceFields ==
    {[tag |-> g, v |-> 0] : g \in {"missing", "null"}}
        \cup {[tag |-> "number", v |-> x] : x \in {-20, 0, 20, 35, 80, 100, 130}}

NoField == [tag |-> "missing", v |-> 0]

JsonBodies ==
    {[kind |-> k, property_type |-> [tag |-> "missing", v |-> "rent"],
      price |-> NoField, confidence |-> NoField] : k \in {"not_json", "json_list"}}
        \cup {[kind |-> "json_object", property_type |-> ty, price |-> pr,
               confidence |-> co] :
                ty \in TypeFields, pr \in PriceFields, co \in ConfidenceFields}

\* response.choices[0].message.content: an optional fence around a body;
\* FENCE_JSON is the three backquotes followed by json, FENCE the three alone
Fences == {<<"", "">>, <<"FENCE_JSON", "FENCE">>, <<"FENCE_JSON", "">>, <<"FENCE", "FENCE">>}

LlmReplies ==
    {[kind |-> k, fence |-> <<"", "">>, body |-> CHOOSE b \in JsonBodies : b.kind = "not_json"] :
        k \in {"api_error", "no_content"}}
        \cup {[kind |-> "content", fence |-> f, body |-> b] : f \in Fences, b \in JsonBodies}

\* lines 162-166: the opening marker is removed only when it is the json fence
CleanedPrefix(fence) == IF fence[1] = "FENCE_JSON" THEN "" ELSE fence[1]

\* json.loads(content)
JsonLoads(reply) ==
    IF CleanedPrefix(reply.fence) # "" \/ reply.body.kind = "not_json"
    THEN Raise("JSONDecodeError")
    ELSE Return(reply.body)

\* PropertyParsingResult(...) of _try_llm_parsing, with pydantic's validation
MakeLlmResult(body) ==
    IF \/ body.property_type.tag = "null"
       \/ body.price.tag = "bad"
       \/ body.confidence.tag = "null"
    THEN Raise("ValidationError")
    ELSE Return([property_type |-> body.property_type.v,
                 price |-> IF body.price.tag = "number"
                           THEN PriceOf(body.price.v) ELSE NoPrice,
                 confidence |-> IF body.confidence.tag = "missing"
                                THEN 80 ELSE body.confidence.v,
                 validation_warnings |-> <<>>, is_fallback |-> FALSE])

\* the body of the outer try block of _try_llm_parsing, with the inner
\* except json.JSONDecodeError
TryLlmBody(reply) ==
    CASE reply.kind = "api_error" -> Raise("APIError")
      [] reply.kind = "no_content" -> Raise("AttributeError")
      [] OTHER ->
            LET parsed_data == JsonLoads(reply) IN
            IF parsed_data.kind = "raise"
            THEN Return(None)
            ELSE IF parsed_data.value.kind # "json_object"
                 THEN Raise("AttributeError")
                 ELSE MakeLlmResult(parsed_data.value)

\* _try_llm_parsing
TryLlmParsing(cl, reply) ==
    IF ~cl
    THEN Return(None)
    ELSE LET o == TryLlmBody(reply) IN
         IF o.kind = "raise" THEN Return(None) ELSE o

\* mutant: the penalty is subtracted without the floor
Mut_Lowered(conf, penalty) == conf - penalty

\* max(0.1, result.confidence - penalty), in hundredths
Lowered(conf, penalty) == IF conf - penalty >= 10 THEN conf - penalty ELSE 10

NoText == <<>>

(***************************************************************************)
(* parse_property_text, with the two checks of _validate_parsing_result    *)
(***************************************************************************)
ParseIdle ==
    /\ ppc = "idle"
    /\ text = NoText
    /\ llm_reply = Pending
    /\ llm_out = Pending
    /\ result = Pending
    /\ warnings = <<>>
    /\ conf_before = 0
    /\ p_out = Pending
    /\ fb_fault = FALSE

\* a caller enters parse_property_text with a text
ParsePropertyText_Start(t) ==
    /\ ppc = "idle"
    /\ ppc' = "llm"
    /\ text' = t
    /\ UNCHANGED <<client, cvars, avars, qvars, llm_reply, llm_out, result, warnings,
                   conf_before, p_out, fb_fault>>

\* result = await self._try_llm_parsing(text); None or an exception leads to
\* the fallback
ParsePropertyText_TryLlm(reply) ==
    /\ ppc = "llm"
    /\ LET o == TryLlmParsing(client, reply) IN
       /\ llm_reply' = reply
       /\ llm_out' = o
       /\ IF o.kind = "raise" \/ o.value = None
          THEN /\ ppc' = "fallback"
               /\ result' = result
               /\ conf_before' = conf_before
          ELSE /\ ppc' = "validate_type"
               /\ result' = o.value
               /\ conf_before' = o.value.confidence
    /\ UNCHANGED <<client, cvars, avars, qvars, text, warnings, p_out, fb_fault>>

\* _validate_parsing_result, lines 209-215
ValidateType ==
    /\ ppc = "validate_type"
    /\ LET type_validation == ValidatePropertyType(text, result.property_type) IN
       IF ~type_validation.is_valid
       THEN /\ warnings' = warnings
                    \o <<Prefixed("type validation: ", type_validation.message)>>
                    \o PlainAll(type_validation.suggestions)
            /\ result' = [result EXCEPT !.confidence = Lowered(@, 30)]
       ELSE /\ warnings' = warnings
            /\ result' = result
    /\ conf_before' = result.confidence
    /\ ppc' = "validate_price"
    /\ UNCHANGED <<client, cvars, avars, qvars, text, llm_reply, llm_out, p_out, fb_fault>>

\* _validate_parsing_result, lines 217-235, and the return of line 111
ValidatePrice ==
    /\ ppc = "validate_price"
    /\ LET price_validation == ValidatePriceRange(result.property_type, result.price)
           failed == ~price_validation.is_valid
           ws == IF failed
                 THEN warnings
                        \o <<Prefixed("price validation: ", price_validation.message)>>
                        \o PlainAll(price_validation.suggestions)
                 ELSE warnings
           validated == [result EXCEPT
                            !.confidence = IF failed THEN Lowered(@, 20) ELSE @,
                            !.validation_warnings = ws]
       IN /\ warnings' = ws
          /\ result' = validated
          /\ p_out' = Return(validated)
    /\ conf_before' = result.confidence
    /\ ppc' = "done"
    /\ UNCHANGED <<client, cvars, avars, qvars, text, llm_reply, llm_out, fb_fault>>

\* return self._create_fallback_result(text), lines 105 and 116
Fallback(fault) ==
    /\ ppc = "fallback"
    /\ fb_fault' = fault
    /\ p_out' = CreateFallbackResult(text, fault)
    /\ ppc' = "done"
    /\ UNCHANGED <<client, cvars, avars, qvars, text, llm_reply, llm_out, result, warnings,
                   conf_before>>

\* the caller has the result; the service holds nothing of the call
ParseFinish ==
    /\ ppc = "done"
    /\ ppc' = "idle"
    /\ text' = NoText
    /\ llm_reply' = Pending
    /\ llm_out' = Pending
    /\ result' = Pending
    /\ warnings' = <<>>
    /\ conf_before' = 0
    /\ p_out' = Pending
    /\ fb_fault' = FALSE
    /\ UNCHANGED <<client, cvars, avars, qvars>>

(***************************************************************************)
(* Chat replies and messages.  A text of the chat is a sequence of         *)
(* lexemes: a lexeme is one character, or a run of characters that the     *)
(* pattern of _extract_intent_from_response and the JSON parser take as a  *)
(* unit.  FENCE is the three backquotes, FENCE_JSON the three backquotes   *)
(* followed by json; IT_QUERY, IT_IMAGE and IT_CHAT are the member         *)
(* "intent_type": "..." with the values property_query,                    *)
(* property_image_query and chat; QP: and QS: are the keys query_params    *)
(* and query_suggestion with their colon; PARAMS_SALE and PARAMS_RENT are  *)
(* the members of a conditions object; CM is the member                    *)
(* confirmation_message; OQ_ASK, OQ_HI and OQ_OLD are the member           *)
(* original_query with three values.                                       *)
(***************************************************************************)
ParamLexemes == {"PARAMS_SALE", "PARAMS_RENT"}

\* the conditions object as process_property_query sees it
ParamsOf(lex) ==
    IF lex = "PARAMS_SALE"
    THEN "{property_type: sale, community: Jinhuayuan}"
    ELSE "{property_type: rent}"

\* the user messages that are not confirmation messages; que4 ren4 is the
\* first of confirm_keywords, hao3 de5 the fourth, cha2 xun2 the fifth (bu4
\* cha2 xun2 declines it)
AskMessage == <<"j", "i", "n", "sale", "?">>

HiMessage == <<"h", "i">>

BaseMessages ==
    {AskMessage, HiMessage, <<"que4", "ren4">>, <<" ", "hao3", "de5", "\n">>,
     <<"bu4", "cha2", "xun2">>, <<"O", "K">>, <<>>}

\* the value of the member original_query
OqMessage(lex) ==
    CASE lex = "OQ_ASK" -> AskMessage
      [] lex = "OQ_HI" -> HiMessage
      [] OTHER -> <<"o", "l", "d">>

OqLexemes == {"OQ_ASK", "OQ_HI", "OQ_OLD"}

OqLexeme(m) ==
    CASE m = AskMessage -> "OQ_ASK"
      [] m = HiMessage -> "OQ_HI"
      [] OTHER -> "OQ_OLD"

\* a parsed JSON object; an absent member has its has_ field FALSE or the
\* empty string
EmptyObject ==
    [intent_type |-> "", has_query_params |-> FALSE, query_params |-> EmptyParams,
     has_query_suggestion |-> FALSE, query_suggestion |-> EmptyParams,
     confirmation_message |-> "", has_original_query |-> FALSE,
     original_query |-> <<>>]

JsonList == [json_list |-> TRUE]

NoParse == [ok |-> FALSE, value |-> EmptyObject, next |-> 0]

DropWhitespace(s) == SelectSeq(s, LAMBDA c : c \notin Whitespace)

\* the object value of a key: {} or { conditions }
ObjectValueAt(s, i) ==
    IF i + 1 <= Len(s) /\ s[i] = "{" /\ s[i + 1] = "}"
    THEN [ok |-> TRUE, value |-> EmptyParams, next |-> i + 2]
    ELSE IF i + 2 <= Len(s) /\ s[i] = "{" /\ s[i + 1] \in ParamLexemes /\ s[i + 2] = "}"
         THEN [ok |-> TRUE, value |-> ParamsOf(s[i + 1]), next |-> i + 3]
         ELSE [ok |-> FALSE, value |-> EmptyParams, next |-> 0]

\* one member of an object, added to the members read so far (a repeated
\* key keeps the last value)
MemberAt(s, i, acc) ==
    LET lex == s[i] IN
    CASE lex = "IT_QUERY" ->
            [ok |-> TRUE, next |-> i + 1,
             value |-> [acc EXCEPT !.intent_type = "property_query"]]
      [] lex = "IT_IMAGE" ->
            [ok |-> TRUE, next |-> i + 1,
             value |-> [acc EXCEPT !.intent_type = "property_image_query"]]
      [] lex = "IT_CHAT" ->
            [ok |-> TRUE, next |-> i + 1,
             value |-> [acc EXCEPT !.intent_type = "chat"]]
      [] lex = "CM" ->
            [ok |-> TRUE, next |-> i + 1,
             value |-> [acc EXCEPT !.confirmation_message = "shall I search for: jin sale?"]]
      [] lex \in OqLexemes ->
            [ok |-> TRUE, next |-> i + 1,
             value |-> [acc EXCEPT !.has_original_query = TRUE,
                                   !.original_query = OqMessage(lex)]]
      [] lex = "QP:" ->
            LET v == ObjectValueAt(s, i + 1) IN
            [ok |-> v.ok, next |-> v.next,
             value |-> [acc EXCEPT !.has_query_params = TRUE,
                                   !.query_params = v.value]]
      [] lex = "QS:" ->
            LET v == ObjectValueAt(s, i + 1) IN
            [ok |-> v.ok, next |-> v.next,
             value |-> [acc EXCEPT !.has_query_suggestion = TRUE,
                                   !.query_suggestion = v.value]]
      [] OTHER -> NoParse

RECURSIVE ParseMembers(_, _, _)
ParseMembers(s, i, acc) ==
    IF i > Len(s)
    THEN NoParse
    ELSE LET m == MemberAt(s, i, acc) IN
         IF ~m.ok
         THEN NoParse
         ELSE IF m.next > Len(s)
              THEN m
              ELSE IF s[m.next] = ","
                   THEN ParseMembers(s, m.next + 1, m.value)
                   ELSE NoParse

\* json.loads of a text of lexemes
JsonLoadsText(txt) ==
    LET s == DropWhitespace(txt) IN
    IF s = <<"[", "]">>
    THEN Return(JsonList)
    ELSE IF Len(s) >= 2 /\ s[1] = "{" /\ s[Len(s)] = "}"
         THEN IF Len(s) = 2
              THEN Return(EmptyObject)
              ELSE LET r == ParseMembers(SubSeq(s, 2, Len(s) - 1), 1, EmptyObject) IN
                   IF r.ok THEN Return(r.value) ELSE Raise("JSONDecodeError")
         ELSE Raise("JSONDecodeError")

\* json.dumps of an intent
JsonDumps(obj) ==
    LET it == CASE obj.intent_type = "property_query" -> <<"IT_QUERY">>
                [] obj.intent_type = "property_image_query" -> <<"IT_IMAGE">>
                [] obj.intent_type = "chat" -> <<"IT_CHAT">>
                [] OTHER -> <<>>
        ParamsText(v) ==
            CASE v = ParamsOf("PARAMS_SALE") -> <<"{", "PARAMS_SALE", "}">>
              [] v = ParamsOf("PARAMS_RENT") -> <<"{", "PARAMS_RENT", "}">>
              [] OTHER -> <<"{", "}">>
        qp == IF obj.has_query_params
              THEN <<<<"QP:">> \o ParamsText(obj.query_params)>> ELSE <<>>
        qs == IF obj.has_query_suggestion
              THEN <<<<"QS:">> \o ParamsText(obj.query_suggestion)>> ELSE <<>>
        cm == IF obj.confirmation_message # "" THEN <<<<"CM">>>> ELSE <<>>
        oq == IF obj.has_original_query
              THEN <<<<OqLexeme(obj.original_query)>>>> ELSE <<>>
        members == (IF it = <<>> THEN <<>> ELSE <<it>>) \o qp \o qs \o cm \o oq
        Join[k \in 0..Len(members)] ==
            IF k = 0 THEN <<>>
            ELSE IF k = 1 THEN members[1]
                 ELSE Join[k - 1] \o <<",", " ">> \o members[k]
    IN <<"{">> \o Join[Len(members)] \o <<"}">>

(***************************************************************************)
(* re.findall(r'FENCE_JSON\s*(\{.*?\})\s*FENCE', response, re.DOTALL)      *)
(***************************************************************************)
RECURSIVE SkipWhitespace(_, _)
SkipWhitespace(s, i) ==
    IF i <= Len(s) /\ s[i] \in Whitespace THEN SkipWhitespace(s, i + 1) ELSE i

\* the closing backquotes may be those that open the next block
ClosesAt(s, k) ==
    /\ s[k] = "}"
    /\ LET l == SkipWhitespace(s, k + 1) IN
       l <= Len(s) /\ s[l] \in {"FENCE", "FENCE_JSON"}

\* the match that starts at i, if any: the captured group and the position
\* after the match
PatternAt(s, i) ==
    IF s[i] # "FENCE_JSON"
    THEN [ok |-> FALSE, group |-> <<>>, next |-> i]
    ELSE LET j == SkipWhitespace(s, i + 1)
             ends == {k \in (j + 1)..Len(s) : ClosesAt(s, k)} IN
         IF j <= Len(s) /\ s[j] = "{" /\ ends # {}
         THEN LET k == CHOOSE e \in ends : \A o \in ends : e <= o IN
              [ok |-> TRUE, group |-> SubSeq(s, j, k),
               next |-> SkipWhitespace(s, k + 1) + 1]
         ELSE [ok |-> FALSE, group |-> <<>>, next |-> i]

RECURSIVE FindAllFrom(_, _)
FindAllFrom(s, i) ==
    IF i > Len(s)
    THEN <<>>
    ELSE LET m == PatternAt(s, i) IN
         IF m.ok THEN <<m.group>> \o FindAllFrom(s, m.next)
         ELSE FindAllFrom(s, i + 1)

FindAll(s) == FindAllFrom(s, 1)

(***************************************************************************)
(* _extract_intent_from_response                                           *)
(***************************************************************************)
\* a response of the model: a text, or null
Str(txt) == [null |-> FALSE, text |-> txt]

NullResponse == [null |-> TRUE, text |-> <<>>]

INTENT_TYPES == {"property_query", "property_image_query"}

\* mutant: the original query is attached only on the first run of a turn
Mut_AttachOriginalQuery(intent, original_query) ==
    IF first_run = Pending
    THEN [intent EXCEPT !.has_original_query = TRUE, !.original_query = original_query]
    ELSE intent

\* intent_data["original_query"] = original_query
AttachOriginalQuery(intent, original_query) ==
    [intent EXCEPT !.has_original_query = TRUE, !.original_query = original_query]

\* mutant: the last fenced block is the one parsed
Mut_FirstMatch(matches) == matches[Len(matches)]

\* matches[0]: of the blocks found, the one that is parsed
FirstMatch(matches) == matches[1]

\* the try block of _extract_intent_from_response
ExtractIntentBody(response, original_query) ==
    IF response.null
    THEN Raise("TypeError")
    ELSE LET matches == FindAll(response.text) IN
         IF matches = <<>>
         THEN Return(None)
         ELSE LET parsed == JsonLoadsText(FirstMatch(matches)) IN
              IF parsed.kind = "raise"
              THEN parsed
              ELSE IF parsed.value.intent_type \in INTENT_TYPES
                   THEN Return(AttachOriginalQuery(parsed.value, original_query))
                   ELSE Return(None)

\* _extract_intent_from_response: the except clause falls through to None
ExtractIntent(response, original_query) ==
    LET o == ExtractIntentBody(response, original_query) IN
    IF o.kind = "raise" THEN None ELSE o.value

(***************************************************************************)
(* The replies of the chat model and how they arrive.                      *)
(***************************************************************************)
QueryBlock ==
    <<"FENCE_JSON", "\n", "{", "IT_QUERY", ",", "QP:", "{", "PARAMS_SALE", "}", ",",
      "CM", "}", "\n", "FENCE">>

ImageBlock ==
    <<"FENCE_JSON", "{", "IT_IMAGE", ",", "QS:", "{", "PARAMS_RENT", "}", ",", "CM",
      "}", "FENCE">>

ReplyTexts ==
    {<<"h", "i">>,
     <<>>,
     <<"o", "k", "\n">> \o QueryBlock,
     ImageBlock,
     <<"FENCE_JSON", "{", "IT_CHAT", "}", "FENCE">>,
     <<"FENCE_JSON", "{", "h", "}", "FENCE", " ", "FENCE_JSON", "{", "IT_QUERY", "}", "FENCE">>,
     <<"FENCE_JSON", "{", "IT_QUERY", "FENCE", "FENCE_JSON", "{", "IT_QUERY", "}", "FENCE">>,
     <<"FENCE", "{", "IT_QUERY", "}", "FENCE">>,
     <<"FENCE_JSON", "{", "IT_QUERY", ",", "OQ_OLD", "}", "FENCE", "h">>,
     <<"FENCE_JSON", "{", "IT_CHAT", "}", "FENCE_JSON", "{", "IT_QUERY", "}", "FENCE">>,
     <<"FENCE_JSON", "{", "}", "FENCE">>,
     <<"FENCE_JSON", "{", "IT_QUERY", "}", "FENCE", "FENCE_JSON", "{", "h", "}", "FENCE">>}

\* a chunk of the stream: chunk.choices[0].delta.content, if there is one
Chunk(txt) == [has_content |-> TRUE, content |-> txt]

NoContentChunk == [has_content |-> FALSE, content |-> <<>>]

\* where a reply is cut into chunks
ChunkCut == 4

\* the ways a reply arrives: in one chunk, or cut in two around a chunk
\* without content
Chunkings(txt) ==
    IF Len(txt) > ChunkCut
    THEN {<<Chunk(txt)>>,
          <<Chunk(SubSeq(txt, 1, ChunkCut)), NoContentChunk,
            Chunk(SubSeq(txt, ChunkCut + 1, Len(txt)))>>}
    ELSE {<<Chunk(txt)>>}

NoStream == [kind |-> "none", chunks |-> <<>>, error |-> ""]

\* the stream of one turn: create() raises, the iteration raises after the
\* chunks given, or the reply arrives whole
Streams ==
    {[kind |-> "ok", chunks |-> c, error |-> ""] :
        c \in UNION {Chunkings(t) : t \in ReplyTexts}}
        \cup {[kind |-> "create_error", chunks |-> <<>>, error |-> "connection refused"],
              [kind |-> "read_error", chunks |-> <<>>, error |-> "stream closed"],
              [kind |-> "read_error", chunks |-> <<Chunk(<<"h">>)>>,
               error |-> "stream closed"]}

\* the characters of a lexeme, shortened; sou1 suo3 is the sixth of
\* confirm_keywords, which the confirmation message of the prompts contains
Chars(lex) ==
    CASE lex = "FENCE" -> <<"BQ", "BQ", "BQ">>
      [] lex = "FENCE_JSON" -> <<"BQ", "BQ", "BQ", "j", "s", "o", "n">>
      [] lex = "CM" -> <<"c", "m", ":", "sou1", "suo3", "?">>
      [] lex \in {"IT_QUERY", "IT_IMAGE", "IT_CHAT"} -> <<"i", "t", ":", lex>>
      [] lex \in {"QP:", "QS:"} -> <<"q", lex>>
      [] lex \in ParamLexemes -> <<"p", "t", ":", lex>>
      [] lex \in OqLexemes -> <<"o", "q", ":", lex>>
      [] lex = "PROPERTY_QUERY_CONFIRM:" -> <<"P", "Q", "C", ":">>
      [] OTHER -> <<lex>>

RECURSIVE Expand(_)
Expand(txt) == IF txt = <<>> THEN <<>> ELSE Chars(Head(txt)) \o Expand(Tail(txt))

(***************************************************************************)
(* What the chat operations yield or return.                               *)
(***************************************************************************)
\* a fixed text
TextChunk(t) == [kind |-> "text", text |-> t]

\* the text of lines 175 and 266, followed by str(e)
ErrorChunk(e) == [kind |-> "error", text |-> e]

\* one character of the reply
CharChunk(c) == [kind |-> "char", c |-> c]

\* the reply of the model, whole; null if the model gave no content
WholeReply(response) == [kind |-> "reply", response |-> response]

\* the text of line 122
ConfirmFormatMsg == "the confirmation message is malformed, start the query again"

TEXT_HEADER == "property query intent"

IMAGE_HEADER == "property image query intent"

TEXT_DEFAULT_CONFIRMATION == "shall I search listings for you?"

IMAGE_DEFAULT_CONFIRMATION == "shall I search similar listings for you?"

\* intent_data.get("confirmation_message", default)
ConfirmationMessage(intent, default) ==
    IF intent.confirmation_message = "" THEN default ELSE intent.confirmation_message

\* the confirmation text of lines 152-158 and 252-257: header, confirmation
\* message, hint and the intent embedded as INTENT_DATA
ConfirmationChunk(header, intent, default) ==
    [kind |-> "confirmation", header |-> header,
     message |-> ConfirmationMessage(intent, default),
     hint |-> "reply confirm or start query to run it, or describe the request again",
     payload |-> JsonDumps(intent)]

\* f"QUERY_RESULT:{result_json}"
QueryResultChunk(r) == [kind |-> "query_result", result |-> r]

\* mutant: a stage that failed is reported as complete
Mut_StepChunk(step, status, detail) ==
    [kind |-> "step", step |-> step,
     status |-> IF status = "error" THEN "complete" ELSE status, detail |-> detail]

\* f"STEP:{step}:{status}:{detail}"
StepChunk(step, status, detail) ==
    [kind |-> "step", step |-> step, status |-> status, detail |-> detail]

(***************************************************************************)
(* The user's messages.                                                    *)
(***************************************************************************)
CONFIRM_PREFIX == <<"PROPERTY_QUERY_CONFIRM:">>

\* the intents that a reply of ReplyTexts makes a turn embed in its
\* confirmation
EmbeddedIntents ==
    {ExtractIntent(Str(t), AskMessage) : t \in ReplyTexts} \ {None}

\* what the front end sends to confirm an embedded intent, and three
\* payloads that no turn embedded
ConfirmMessages ==
    {CONFIRM_PREFIX \o JsonDumps(i) : i \in EmbeddedIntents}
        \cup {CONFIRM_PREFIX \o <<"[", "]">>,
              CONFIRM_PREFIX \o <<"{", "h">>,
              CONFIRM_PREFIX \o <<"{", "QP:", "{", "PARAMS_RENT", "}", "}">>}

Messages == BaseMessages \cup ConfirmMessages

\* the intents handed to stream_chat_with_confirmation and to
\* stream_property_query_steps
PendingIntents ==
    EmbeddedIntents
        \cup {[EmptyObject EXCEPT !.intent_type = "property_query",
                                  !.has_query_params = TRUE,
                                  !.query_params = "{property_type: both}"]}

\* confirm_keywords of line 195, in pinyin
CONFIRM_KEYWORDS ==
    <<<<"que4", "ren4">>, <<"kai1", "shi3", "cha2", "xun2">>, <<"shi4", "de5">>,
      <<"hao3", "de5">>, <<"cha2", "xun2">>, <<"sou1", "suo3">>, <<"zhao3", "zhao3">>>>

\* mutant: every message counts as a confirmation
Mut_IsAffirmative(m) == TRUE

\* any(keyword in user_input for keyword in confirm_keywords), with
\* user_input = message.lower().strip()
IsAffirmative(m) ==
    LET user_input == Strip(Lower(Expand(m))) IN
    \E k \in 1..Len(CONFIRM_KEYWORDS) : Contains(user_input, CONFIRM_KEYWORDS[k])

\* message.startswith("PROPERTY_QUERY_CONFIRM:")
IsConfirmMessage(m) == StartsWith(m, CONFIRM_PREFIX)

\* message[len("PROPERTY_QUERY_CONFIRM:"):]
IntentJson(m) == SubSeq(m, Len(CONFIRM_PREFIX) + 1, Len(m))

\* lines 109-113: json.loads(intent_json), then intent_data.get(...), which
\* a value that is not an object does not have
ConfirmedIntent(m) ==
    LET o == JsonLoadsText(IntentJson(m)) IN
    IF o.kind = "raise"
    THEN o
    ELSE IF o.value = JsonList THEN Raise("AttributeError") ELSE o

\* mutant: a reply is streamed whether or not it carries an intent
Mut_IntentFound(intent) == FALSE

\* "if intent_data:"
IntentFound(intent) == intent # None

(***************************************************************************)
(* stream_chat_text                                                        *)
(***************************************************************************)
ChatIdle ==
    /\ c_op = "none"
    /\ cpc = "idle"
    /\ message = <<>>
    /\ pending_intent = None
    /\ stream = NoStream
    /\ chunks_read = 0
    /\ full_response = <<>>
    /\ chat_intent = Pending
    /\ emitted = <<>>
    /\ c_out = Pending
    /\ first_run = Pending
    /\ awaiting = None

\* the generator is exhausted: the operation ended without raising
Exhausted == Return(None)

\* lines 98-126 of stream_chat_text, up to the first await: the service is
\* down, the message confirms an intent, or the turn is an ordinary one
TextTurnEntry(m) ==
    /\ stream' = NoStream
    /\ chunks_read' = 0
    /\ full_response' = <<>>
    /\ chat_intent' = Pending
    /\ IF ~client
       THEN /\ emitted' = <<TextChunk(ServiceDownMsg)>>
            /\ c_out' = Exhausted
            /\ cpc' = "done"
            /\ UNCHANGED qvars
       ELSE IF IsConfirmMessage(m)
            THEN LET o == ConfirmedIntent(m) IN
                 IF o.kind = "raise"
                 THEN /\ emitted' = <<TextChunk(ConfirmFormatMsg)>>
                      /\ c_out' = Exhausted
                      /\ cpc' = "done"
                      /\ UNCHANGED qvars
                 ELSE /\ emitted' = <<>>
                      /\ c_out' = Pending
                      /\ cpc' = "pipeline"
                      /\ StartQuery(o.value)
            ELSE /\ emitted' = <<>>
                 /\ c_out' = Pending
                 /\ cpc' = "create"
                 /\ UNCHANGED qvars

\* a caller iterates stream_chat_text(message, conversation_history)
StreamChatText_Start(m) ==
    /\ cpc = "idle"
    /\ c_op' = "text"
    /\ message' = m
    /\ pending_intent' = None
    /\ TextTurnEntry(m)
    /\ UNCHANGED <<client, first_run, awaiting, avars, pvars>>

\* lines 113-119: process_property_query has returned; its result is yielded
StreamChatText_QueryResult ==
    /\ cpc = "pipeline"
    /\ qpc = "done"
    /\ emitted' = <<QueryResultChunk(q_ret.value)>>
    /\ c_out' = Exhausted
    /\ cpc' = "done"
    /\ UNCHANGED <<client, c_op, message, pending_intent, stream, chunks_read,
                   full_response, chat_intent, first_run, awaiting, qvars, avars, pvars>>

\* lines 132-138: stream = self.client.chat.completions.create(stream=True)
StreamChatText_Create(s) ==
    /\ cpc = "create"
    /\ stream' = s
    /\ IF s.kind = "create_error"
       THEN /\ emitted' = <<ErrorChunk(s.error)>>
            /\ c_out' = Exhausted
            /\ cpc' = "done"
       ELSE /\ cpc' = "consume"
            /\ UNCHANGED <<emitted, c_out>>
    /\ UNCHANGED <<client, c_op, message, pending_intent, chunks_read, full_response,
                   chat_intent, first_run, awaiting, qvars, avars, pvars>>

\* lines 140-143: one chunk of the stream is added to full_response
StreamChatText_Consume ==
    /\ cpc = "consume"
    /\ chunks_read < Len(stream.chunks)
    /\ LET chunk == stream.chunks[chunks_read + 1] IN
       full_response' = IF chunk.has_content /\ chunk.content # <<>>
                        THEN full_response \o chunk.content
                        ELSE full_response
    /\ chunks_read' = chunks_read + 1
    /\ UNCHANGED <<client, c_op, cpc, message, pending_intent, stream, chat_intent,
                   emitted, c_out, first_run, awaiting, qvars, avars, pvars>>

\* the stream ends: lines 146-161 if it ended well, lines 173-175 if the
\* iteration raised
StreamChatText_Detect ==
    /\ cpc = "consume"
    /\ chunks_read = Len(stream.chunks)
    /\ IF stream.kind = "read_error"
       THEN /\ emitted' = <<ErrorChunk(stream.error)>>
            /\ c_out' = Exhausted
            /\ cpc' = "done"
            /\ UNCHANGED chat_intent
       ELSE LET intent == ExtractIntent(Str(full_response), message) IN
            /\ chat_intent' = intent
            /\ IF IntentFound(intent)
               THEN /\ emitted' = <<ConfirmationChunk(TEXT_HEADER, intent,
                                                       TEXT_DEFAULT_CONFIRMATION)>>
                    /\ c_out' = Exhausted
                    /\ cpc' = "done"
               ELSE IF Expand(full_response) = <<>>
                    THEN /\ c_out' = Exhausted
                         /\ cpc' = "done"
                         /\ UNCHANGED emitted
                    ELSE /\ cpc' = "typing"
                         /\ UNCHANGED <<emitted, c_out>>
    /\ UNCHANGED <<client, c_op, message, pending_intent, stream, chunks_read,
                   full_response, first_run, awaiting, qvars, avars, pvars>>

\* lines 165-171: the next character of the reply is yielded
StreamChatText_Type ==
    /\ cpc = "typing"
    /\ LET chars == Expand(full_response) IN
       /\ emitted' = Append(emitted, CharChunk(chars[Len(emitted) + 1]))
       /\ IF Len(emitted) + 1 = Len(chars)
          THEN c_out' = Exhausted /\ cpc' = "done"
          ELSE UNCHANGED <<c_out, cpc>>
    /\ UNCHANGED <<client, c_op, message, pending_intent, stream, chunks_read,
                   full_response, chat_intent, first_run, awaiting, qvars, avars, pvars>>

\* the same turn is submitted again and the model gives the same response
StreamChatText_Again ==
    /\ cpc = "done"
    /\ c_op = "text"
    /\ first_run = Pending
    /\ stream.kind = "ok"
    /\ first_run' = [chat_intent |-> chat_intent, emitted |-> emitted]
    /\ cpc' = "consume"
    /\ chunks_read' = 0
    /\ full_response' = <<>>
    /\ chat_intent' = Pending
    /\ emitted' = <<>>
    /\ c_out' = Pending
    /\ UNCHANGED <<client, c_op, message, pending_intent, stream, awaiting, qvars,
                   avars, pvars>>

(***************************************************************************)
(* stream_chat_with_confirmation                                           *)
(***************************************************************************)
\* line 201: "async for" over the value of process_property_query(...),
\* which is a coroutine and has no __aiter__; its body is never entered
AsyncForOverCoroutine == Raise("TypeError")

\* a caller iterates stream_chat_with_confirmation(message, intent_data, h)
StreamChatWithConfirmation_Start(m, intent) ==
    /\ cpc = "idle"
    /\ c_op' = "confirm"
    /\ message' = m
    /\ pending_intent' = intent
    /\ IF IsAffirmative(m)
       THEN /\ c_out' = AsyncForOverCoroutine
            /\ emitted' = <<>>
            /\ cpc' = "done"
            /\ stream' = NoStream
            /\ chunks_read' = 0
            /\ full_response' = <<>>
            /\ chat_intent' = Pending
            /\ UNCHANGED qvars
       ELSE TextTurnEntry(m)
    /\ UNCHANGED <<client, first_run, awaiting, avars, pvars>>

(***************************************************************************)
(* chat_with_image                                                         *)
(***************************************************************************)
\* how _encode_image_to_base64 and the vision model answer
ImageReplies ==
    {[kind |-> "no_file", response |-> NullResponse, error |-> "image file does not exist"],
     [kind |-> "api_error", response |-> NullResponse, error |-> "timeout"],
     [kind |-> "content", response |-> NullResponse, error |-> ""]}
        \cup {[kind |-> "content", response |-> Str(t), error |-> ""] : t \in ReplyTexts}

\* the value chat_with_image returns
ChatWithImageValue(cl, m, reply) ==
    IF ~cl
    THEN TextChunk(ServiceDownMsg)
    ELSE IF reply.kind # "content"
         THEN ErrorChunk(reply.error)
         ELSE LET intent == ExtractIntent(reply.response, m) IN
              IF IntentFound(intent)
              THEN ConfirmationChunk(IMAGE_HEADER, intent, IMAGE_DEFAULT_CONFIRMATION)
              ELSE WholeReply(reply.response)

\* a caller awaits chat_with_image(message, image_path, history)
ChatWithImage(m, reply) ==
    /\ cpc = "idle"
    /\ c_op' = "image"
    /\ message' = m
    /\ pending_intent' = None
    /\ stream' = NoStream
    /\ chunks_read' = 0
    /\ full_response' = reply.response.text
    /\ chat_intent' = IF client /\ reply.kind = "content"
                      THEN ExtractIntent(reply.response, m) ELSE Pending
    /\ emitted' = <<>>
    /\ c_out' = Return(ChatWithImageValue(client, m, reply))
    /\ cpc' = "done"
    /\ UNCHANGED <<client, first_run, awaiting, qvars, avars, pvars>>

(***************************************************************************)
(* stream_property_query_steps                                             *)
(***************************************************************************)
\* a caller iterates stream_property_query_steps(intent_data, user_query):
\* lines 490-496
StreamPropertyQuerySteps_Start(intent) ==
    /\ cpc = "idle"
    /\ c_op' = "steps"
    /\ message' = <<>>
    /\ pending_intent' = intent
    /\ EnterQuery(intent, "idle")
    /\ emitted' = <<StepChunk("param_analysis", "start", ""),
                    StepChunk("param_analysis", "complete", GetQueryParams(intent))>>
    /\ cpc' = "steps_generate"
    /\ UNCHANGED <<client, stream, chunks_read, full_response, chat_intent, c_out,
                   first_run, awaiting, avars, pvars>>

\* lines 499-507
StreamPropertyQuerySteps_Generate(reply) ==
    /\ cpc = "steps_generate"
    /\ LET o == GenerateSqlQuery(client, reply) IN
       /\ sql_reply' = reply
       /\ sql_data' = o.value
       /\ gen_calls' = IF client THEN gen_calls + 1 ELSE gen_calls
       /\ IF NoSqlData(o.value)
          THEN /\ emitted' = emitted \o <<StepChunk("sql_generation", "start", ""),
                                          StepChunk("sql_generation", "error", GenFailMsg)>>
               /\ c_out' = Exhausted
               /\ cpc' = "done"
          ELSE /\ emitted' = emitted \o <<StepChunk("sql_generation", "start", ""),
                                          StepChunk("sql_generation", "complete", o.value)>>
               /\ c_out' = c_out
               /\ cpc' = "steps_execute"
    /\ UNCHANGED <<client, c_op, message, pending_intent, stream, chunks_read,
                   full_response, chat_intent, first_run, awaiting, qpc, intent_data,
                   query_params, store, exec_arg, query_results, q_ret, db_executes,
                   sum_calls, exec_runs, sum_runs, sessions_open, sum_reply, avars,
                   pvars>>

\* lines 510-521, and lines 527-529 if the executor raised
StreamPropertyQuerySteps_Execute(st) ==
    /\ cpc = "steps_execute"
    /\ LET r == ExecuteSqlQuery(sql_data, st)
           started == emitted \o <<StepChunk("sql_execution", "start", "")>> IN
       /\ store' = st
       /\ exec_arg' = sql_data
       /\ query_results' = r.out
       /\ db_executes' = db_executes + r.executed
       /\ exec_runs' = exec_runs + 1
       /\ sessions_open' = sessions_open + r.opened - r.closed
       /\ IF r.out.kind = "raise"
          THEN /\ emitted' = Append(started, StepChunk("error", "", r.out.exc))
               /\ c_out' = Exhausted
               /\ cpc' = "done"
          ELSE LET counted == Append(started, StepChunk("sql_execution", "complete",
                                                        Len(r.out.value))) IN
               IF NoRows(r.out.value)
               THEN /\ emitted' = Append(counted, StepChunk("final_answer", "complete",
                                                            NoResultMsg))
                    /\ c_out' = Exhausted
                    /\ cpc' = "done"
               ELSE /\ emitted' = counted
                    /\ c_out' = c_out
                    /\ cpc' = "steps_summarize"
    /\ UNCHANGED <<client, c_op, message, pending_intent, stream, chunks_read,
                   full_response, chat_intent, first_run, awaiting, qpc, intent_data,
                   query_params, sql_reply, sql_data, q_ret, gen_calls, sum_calls,
                   sum_runs, sum_reply, avars, pvars>>

\* lines 523-525
StreamPropertyQuerySteps_Summarize(reply) ==
    /\ cpc = "steps_summarize"
    /\ LET a == ProcessQueryResults(client, reply) IN
       emitted' = emitted \o <<StepChunk("answer_generation", "start", ""),
                               StepChunk("answer_generation", "complete", a.value)>>
    /\ sum_calls' = IF client THEN sum_calls + 1 ELSE sum_calls
    /\ sum_runs' = sum_runs + 1
    /\ sum_reply' = reply
    /\ c_out' = Exhausted
    /\ cpc' = "done"
    /\ UNCHANGED <<client, c_op, message, pending_intent, stream, chunks_read,
                   full_response, chat_intent, first_run, awaiting, qpc, intent_data,
                   query_params, sql_reply, sql_data, store, exec_arg, query_results,
                   q_ret, gen_calls, db_executes, exec_runs, sessions_open, avars,
                   pvars>>

\* the intent that the operation just ended asked the user to confirm: the
\* INTENT_DATA of the confirmation of lines 152-158 and 252-257, None if
\* the operation gave anything else
AskedToConfirm ==
    IF emitted # <<>> /\ emitted[1].kind = "confirmation"
    THEN chat_intent
    ELSE IF c_op = "image" /\ c_out.value.kind = "confirmation"
         THEN chat_intent
         ELSE None

\* the caller has what the operation gave; the service holds nothing of it,
\* the conversation holds the intent it was asked to confirm
ChatFinish ==
    /\ cpc = "done"
    /\ c_op' = "none"
    /\ cpc' = "idle"
    /\ message' = <<>>
    /\ pending_intent' = None
    /\ stream' = NoStream
    /\ chunks_read' = 0
    /\ full_response' = <<>>
    /\ chat_intent' = Pending
    /\ emitted' = <<>>
    /\ c_out' = Pending
    /\ first_run' = Pending
    /\ awaiting' = AskedToConfirm
    /\ EnterQuery(NoIntent, "idle")
    /\ UNCHANGED <<client, avars, pvars>>

(***************************************************************************)
(* Authentication: backend/utils/dependencies.py and                       *)
(* backend/services/auth_service.py.  Time is counted in days.             *)
(***************************************************************************)
\* the last day of the model
MaxTime == 8

\* the last day on which a user logs in
MaxLoginDay == 1

\* ACCESS_TOKEN_EXPIRE_MINUTES // (24 * 60), with the 10080 minutes of the settings
SESSION_DAYS == 7

UserIds == {1, 2}

\* the user that the username admin names
ADMIN == 1

\* a token signed by create_access_token for user u on day d, and a token
\* whose signature does not verify
SignedToken(u, d) == [signed |-> TRUE, sub |-> u, iat |-> d, exp |-> d + SESSION_DAYS]

ForgedToken == [signed |-> FALSE, sub |-> ADMIN, iat |-> 0, exp |-> MaxTime + SESSION_DAYS]

Tokens == {SignedToken(u, d) : u \in UserIds, d \in 0..MaxLoginDay} \cup {ForgedToken}

NoCredentials == [credentials |-> FALSE]

Credentials == {NoCredentials} \cup Tokens

\* the operations behind Depends(get_current_user)
Endpoints == {"create_property", "parse_property_text", "stream_text_chat"}

\* hashlib.sha256(token.encode()).hexdigest()
HashToken(token) == <<"sha256", token.signed, token.sub, token.iat>>

TokenHashes == {HashToken(t) : t \in Tokens}

\* verify_token: jwt.decode checks the signature and the exp claim
VerifyToken(token, t) == token.signed /\ token.exp >= t

\* UserSession.is_expired of a row that expires at e
IsExpired(e, t) == t > e

\* AuthService.get_current_user: the user, or None
AuthServiceGetCurrentUser(sessions, us, token, t) ==
    IF ~VerifyToken(token, t)
    THEN None
    ELSE LET h == HashToken(token) IN
         IF ~sessions[h].exists \/ IsExpired(sessions[h].expires_at, t)
         THEN None
         ELSE IF token.sub \in us THEN [id |-> token.sub] ELSE None

Served(user) == [status |-> 200, current_user |-> user]

Rejected == [status |-> 401, error |-> "INVALID_TOKEN"]

\* the dependency get_current_user of dependencies.py
GetCurrentUser(sessions, us, cred, t) ==
    IF cred = NoCredentials
    THEN IF ADMIN \in us
         THEN Served([id |-> ADMIN])
         ELSE Served([id |-> 1, temp |-> TRUE])
    ELSE LET user == AuthServiceGetCurrentUser(sessions, us, cred, t) IN
         IF user = None THEN Rejected ELSE Served(user)

NoSession == [exists |-> FALSE, expires_at |-> 0]

NoRequest == [endpoint |-> "", credentials |-> NoCredentials]

AuthIdle ==
    /\ auth_sessions = [h \in TokenHashes |-> NoSession]
    /\ now = 0
    /\ request = NoRequest
    /\ auth_response = Pending

\* login of routers/auth.py: create_access_token and create_user_session
Login(u) ==
    /\ auth_response = Pending
    /\ u \in users
    /\ now <= MaxLoginDay
    /\ ~auth_sessions[HashToken(SignedToken(u, now))].exists
    /\ auth_sessions' =
            [auth_sessions EXCEPT ![HashToken(SignedToken(u, now))] =
                [exists |-> TRUE, expires_at |-> now + SESSION_DAYS]]
    /\ UNCHANGED <<client, users, now, request, auth_response, qvars, pvars, cvars>>

\* logout_user: the session row of the token is deleted
Logout(token) ==
    /\ auth_response = Pending
    /\ auth_sessions[HashToken(token)].exists
    /\ auth_sessions' = [auth_sessions EXCEPT ![HashToken(token)] = NoSession]
    /\ UNCHANGED <<client, users, now, request, auth_response, qvars, pvars, cvars>>

\* a day passes
Tick ==
    /\ auth_response = Pending
    /\ now < MaxTime
    /\ now' = now + 1
    /\ UNCHANGED <<client, auth_sessions, users, request, auth_response, qvars, pvars, cvars>>

\* a request reaches an endpoint that depends on get_current_user
HandleRequest(endpoint, cred) ==
    /\ auth_response = Pending
    /\ request' = [endpoint |-> endpoint, credentials |-> cred]
    /\ auth_response' = GetCurrentUser(auth_sessions, users, cred, now)
    /\ UNCHANGED <<client, auth_sessions, users, now, qvars, pvars, cvars>>

\* the response is sent
AuthFinish ==
    /\ auth_response # Pending
    /\ request' = NoRequest
    /\ auth_response' = Pending
    /\ UNCHANGED <<client, auth_sessions, users, now, qvars, pvars, cvars>>

(***************************************************************************)
(* The chat operations, with the pipeline they drive.                      *)
(***************************************************************************)
\* what the SQL model, the database and the summarizer do while a chat
\* operation drives the pipeline: a few of the behaviours of the pipeline's
\* own specification
ChatSqlReplies ==
    {[kind |-> "api_error", matches |-> <<>>],
     [kind |-> "content", matches |-> <<>>],
     [kind |-> "content", matches |-> <<[parses |-> TRUE, obj |-> GoodDict]>>]}

ChatRowCounts == {0, 1, 2}

ChatStores ==
    {[session_ok |-> FALSE, exec_ok |-> FALSE, nrows |-> 0, shape |-> "listing"]}
        \cup {[session_ok |-> TRUE, exec_ok |-> TRUE, nrows |-> n, shape |-> "listing"] :
                n \in ChatRowCounts}

ChatSummaryReplies ==
    {[kind |-> "api_error", content |-> "timeout"],
     [kind |-> "content", content |-> "answer one"]}

ChatInit == client \in BOOLEAN /\ QueryIdle /\ ParseIdle /\ ChatIdle /\ AuthIdle /\ users = UserIds

ChatNext ==
    \/ \E m \in Messages : StreamChatText_Start(m)
    \/ \E s \in Streams : StreamChatText_Create(s)
    \/ StreamChatText_Consume
    \/ StreamChatText_Detect
    \/ StreamChatText_Type
    \/ StreamChatText_QueryResult
    \/ StreamChatText_Again
    \/ \E m \in Messages, intent \in PendingIntents :
            StreamChatWithConfirmation_Start(m, intent)
    \/ \E m \in BaseMessages, reply \in ImageReplies : ChatWithImage(m, reply)
    \/ \E intent \in PendingIntents : StreamPropertyQuerySteps_Start(intent)
    \/ \E reply \in ChatSqlReplies : StreamPropertyQuerySteps_Generate(reply)
    \/ \E st \in ChatStores : StreamPropertyQuerySteps_Execute(st)
    \/ \E reply \in ChatSummaryReplies : StreamPropertyQuerySteps_Summarize(reply)
    \/ \E reply \in ChatSqlReplies : ProcessQuery_Generate(reply)
    \/ \E st \in ChatStores : ProcessQuery_Execute(st)
    \/ \E reply \in ChatSummaryReplies : ProcessQuery_Summarize(reply)
    \/ ChatFinish

ChatSpec == ChatInit /\ [][ChatNext]_vars

(***************************************************************************)
(* Authentication on its own.                                              *)
(***************************************************************************)
AuthInit ==
    /\ client \in BOOLEAN
    /\ QueryIdle /\ ParseIdle /\ ChatIdle /\ AuthIdle
    /\ users \in {{ADMIN}, UserIds, {2}}

AuthNext ==
    \/ \E u \in UserIds : Login(u)
    \/ \E token \in Tokens : Logout(token)
    \/ Tick
    \/ \E endpoint \in Endpoints, cred \in Credentials : HandleRequest(endpoint, cred)
    \/ AuthFinish

AuthSpec == AuthInit /\ [][AuthNext]_vars

(***************************************************************************)
(* The parser on its own.                                                  *)
(***************************************************************************)
ParseInit ==
    client \in BOOLEAN /\ QueryIdle /\ ParseIdle /\ ChatIdle /\ AuthIdle /\ users = UserIds

ParseNext ==
    \/ \E t \in Texts : ParsePropertyText_Start(t)
    \/ \E reply \in LlmReplies : ParsePropertyText_TryLlm(reply)
    \/ ValidateType
    \/ ValidatePrice
    \/ \E fault \in ExtractionFaults : Fallback(fault)
    \/ ParseFinish

ParseSpec == ParseInit /\ [][ParseNext]_vars

(***************************************************************************)
(* The query pipeline on its own.                                          *)
(***************************************************************************)
QueryInit ==
    client \in BOOLEAN /\ QueryIdle /\ ParseIdle /\ ChatIdle /\ AuthIdle /\ users = UserIds

QueryNext ==
    \/ \E intent \in Intents : ProcessQuery_Start(intent)
    \/ \E reply \in SqlReplies : ProcessQuery_Generate(reply)
    \/ \E st \in StoreBehaviours : ProcessQuery_Execute(st)
    \/ \E reply \in SummaryReplies : ProcessQuery_Summarize(reply)
    \/ \E sd \in SqlDicts, st \in StoreBehaviours : ExecuteSqlQuery_Direct(sd, st)
    \/ Finish

QuerySpec == QueryInit /\ [][QueryNext]_vars

(***************************************************************************)
(* Properties of the query pipeline.                                       *)
(***************************************************************************)
IsWordChar(c) ==
    c \in {"S", "E", "L", "C", "T", "X", "D", "R", "O", "P",
           "s", "e", "l", "c", "t", "x", "d", "r", "o", "p", "_",
           "0", "1", "2", "3", "4", "5", "6", "7", "8", "9"}

RECURSIVE WordPrefix(_)
WordPrefix(s) ==
    IF s # <<>> /\ IsWordChar(Head(s))
    THEN <<Head(s)>> \o WordPrefix(Tail(s))
    ELSE <<>>

\* the first token of a statement, trimmed and case-folded
FirstToken(s) == WordPrefix(Upper(Strip(s)))

\* the model's reply carried a first block that parsed and holds a string sql
EmitsSql(reply) ==
    /\ reply.kind = "content"
    /\ reply.matches # <<>>
    /\ reply.matches[1].parses
    /\ reply.matches[1].obj.sql.tag = "string"

\* the statement, trimmed and upper-cased, begins with SELECT
PassesSelectCheck(sd) ==
    sd.sql.tag = "string" /\ StartsWith(Upper(Strip(sd.sql.str)), SELECT)

\* C4 (as stated): whenever the first token of the emitted sql, trimmed and
\* case-folded, is not exactly SELECT, _generate_sql_query returns None.
C4_FirstTokenGate ==
    (EmitsSql(sql_reply) /\ FirstToken(sql_reply.matches[1].obj.sql.str) # SELECT)
        => sql_data = None

\* C5: the executor makes the SELECT check itself (the trimmed, upper-cased
\* statement begins with SELECT): for any sql_data, the store is asked to
\* execute only a statement that passes it; otherwise the store is not asked
\* and the empty sequence is returned.
C5_ExecutorRechecks ==
    exec_runs >= 1 =>
        /\ db_executes >= 1 => PassesSelectCheck(exec_arg)
        /\ ~PassesSelectCheck(exec_arg) =>
              db_executes = 0 /\ query_results = Return(<<>>)

C5_Witness ==
    /\ qpc = "direct_done"
    /\ exec_arg.sql.tag = "string"
    /\ FirstToken(exec_arg.sql.str) = <<"D", "R", "O", "P">>
    /\ store.exec_ok
    /\ store.nrows > 0
    /\ db_executes = 0
    /\ query_results = Return(<<>>)

\* C6: the sequence _execute_sql_query returns has at most 20 rows and is the
\* first 20 rows of the store, in store order, converted; results and
\* found_count of process_property_query are that sequence and its length.
C6_AtMostTwentyFirstRows ==
    exec_runs >= 1 =>
        /\ query_results.kind = "return"
        /\ Len(query_results.value) <= 20
        /\ (db_executes >= 1 /\ store.exec_ok) =>
              /\ Len(query_results.value) = IF store.nrows <= 20 THEN store.nrows ELSE 20
              /\ \A i \in 1..Len(query_results.value) :
                    query_results.value[i] = ConvertRow(StoreRow(i, store.shape))
        /\ (qpc = "done" /\ q_ret.value.success) =>
              /\ q_ret.value.found_count <= 20
              /\ q_ret.value.found_count = Len(q_ret.value.results)
              /\ q_ret.value.results = query_results.value

C6_Witness ==
    /\ qpc = "done"
    /\ exec_runs = 1
    /\ store.exec_ok
    /\ store.nrows > 20
    /\ q_ret.value.success
    /\ q_ret.value.found_count = 20

\* C7: when generation succeeded and the store returned zero rows,
\* process_property_query returns success, found_count 0, no results and the
\* fixed advisory message, and no summarisation call is made in the run.
C7_ZeroRowsAdvisory ==
    (qpc = "done" /\ db_executes = 1 /\ store.exec_ok /\ store.nrows = 0) =>
        /\ q_ret = Return([success |-> TRUE, found_count |-> 0,
                           query_params |-> query_params, sql_info |-> sql_data,
                           results |-> <<>>, message |-> NoResultMsg])
        /\ sum_calls = 0
        /\ sum_runs = 0

C7_Witness ==
    /\ qpc = "done"
    /\ db_executes = 1
    /\ store.exec_ok
    /\ store.nrows = 0
    /\ gen_calls = 1
    /\ q_ret.value.success
    /\ q_ret.value.message = NoResultMsg

\* C8: when SQL generation fails, process_property_query returns success =
\* false with the error text and the caller's query_params; that outcome has
\* none of the fields of the zero-results outcome, and neither the executor
\* nor the summariser runs.
C8_GenerationFailureNamed ==
    /\ (qpc = "done" /\ sql_data = None) =>
          /\ q_ret.kind = "return"
          /\ q_ret.value.success = FALSE
          /\ DOMAIN q_ret.value = {"success", "error", "query_params"}
          /\ q_ret.value.error = GenFailMsg
          /\ q_ret.value.query_params =
                (IF intent_data.has_query_params
                 THEN intent_data.query_params ELSE EmptyParams)
          /\ exec_runs = 0
          /\ db_executes = 0
          /\ sum_runs = 0
          /\ sum_calls = 0
    /\ (qpc = "done" /\ q_ret.value.success) => sql_data # None

C8_Witness ==
    /\ qpc = "done"
    /\ sql_data = None
    /\ client
    /\ EmitsSql(sql_reply)
    /\ FirstToken(sql_reply.matches[1].obj.sql.str) = <<"D", "R", "O", "P">>
    /\ intent_data.has_query_params
    /\ intent_data.query_params # EmptyParams
    /\ q_ret.value.success = FALSE

\* an execution that failed: no session, no sql string, or the store raised
ExecutionError ==
    /\ exec_runs >= 1
    /\ \/ ~store.session_ok
       \/ exec_arg.sql.tag # "string"
       \/ PassesSelectCheck(exec_arg) /\ ~store.exec_ok

\* C9: on any execution error _execute_sql_query returns the empty sequence
\* instead of raising, and process_property_query reports what it reports
\* for zero rows: success, found_count 0 and the fixed advisory message.
C9_ExecutionErrorIsZeroRows ==
    ExecutionError =>
        /\ query_results = Return(<<>>)
        /\ qpc = "done" =>
              /\ q_ret = Return([success |-> TRUE, found_count |-> 0,
                                 query_params |-> query_params,
                                 sql_info |-> sql_data, results |-> <<>>,
                                 message |-> NoResultMsg])
              /\ sum_calls = 0

C9_Witness ==
    /\ qpc = "done"
    /\ exec_runs = 1
    /\ store.session_ok
    /\ ~store.exec_ok
    /\ db_executes = 1
    /\ q_ret.value.success
    /\ q_ret.value.found_count = 0

\* what the claim expects of one value: temporal values become ISO strings,
\* decimals become floats, everything else is passed through
ExpectedValue(val) ==
    IF val.t \in {"datetime", "date", "time"}
    THEN [t |-> "isostring", v |-> val.v]
    ELSE IF val.t = "decimal" THEN [t |-> "float", v |-> val.v] ELSE val

\* C10 (as stated): every value of every returned row is the store's value
\* with temporal values as ISO-8601 strings and decimals as floats; integers,
\* booleans, strings and null are unchanged.
C10_OnlyTemporalAndDecimalConverted ==
    (exec_runs >= 1 /\ query_results.kind = "return") =>
        \A i \in 1..Len(query_results.value) :
            \A c \in DOMAIN query_results.value[i] :
                query_results.value[i][c] = ExpectedValue(StoreRow(i, store.shape)[c])

(***************************************************************************)
(* Properties of parse_property_text.                                      *)
(***************************************************************************)
IsParsingResult(r) ==
    /\ DOMAIN r = {"property_type", "price", "confidence", "validation_warnings",
                   "is_fallback"}
    /\ r.property_type \in {"rent", "sale", "both"}
    /\ r.is_fallback \in BOOLEAN
    /\ r.price.tag \in {"null", "number"}
    /\ r.confidence \in Int
    /\ \A i \in 1..Len(r.validation_warnings) : Len(r.validation_warnings[i]) >= 1

\* the model-based parse yielded no result
NoLlmResult == llm_out # Pending /\ (llm_out.kind = "raise" \/ llm_out.value = None)

\* C1: for every text and every behaviour of the model call,
\* parse_property_text returns a PropertyParsingResult and never raises.
C1_ParseAlwaysReturns ==
    ppc = "done" => p_out.kind = "return" /\ IsParsingResult(p_out.value)

C1_Witness ==
    /\ ppc = "done"
    /\ client
    /\ llm_reply.kind = "content"
    /\ llm_reply.body.kind = "json_list"
    /\ Numbers(text) = <<>>
    /\ p_out.kind = "return"
    /\ p_out.value.is_fallback

\* C2 (as stated): the result of parse_property_text has its confidence
\* within [0.0, 1.0], whatever confidence the model reports.
C2_ConfidenceInRange ==
    ppc = "done" =>
        /\ p_out.kind = "return"
        /\ 0 <= p_out.value.confidence
        /\ p_out.value.confidence <= 100

\* C3: whenever the model-based parse yields no result, the value returned has
\* is_fallback = true and at least one warning, and no error reaches the caller.
C3_NoResultMeansFallback ==
    (ppc = "done" /\ NoLlmResult) =>
        /\ p_out.kind = "return"
        /\ p_out.value.is_fallback = TRUE
        /\ Len(p_out.value.validation_warnings) >= 1

C3_Witness ==
    /\ ppc = "done"
    /\ client
    /\ llm_reply.kind = "api_error"
    /\ NoLlmResult
    /\ p_out.value.is_fallback
    /\ p_out.value.validation_warnings = <<Plain(FallbackWarning)>>

(***************************************************************************)
(* Properties of the chat operations.                                      *)
(***************************************************************************)
\* the response of the model that the finished turn ran intent detection on
DetectionRan ==
    /\ cpc = "done"
    /\ c_op \in {"text", "image"}
    /\ chat_intent # Pending

\* the fenced blocks of the response, in the order they appear
FencedBlocks == FindAll(full_response)

\* the first fenced block parses as JSON and its discriminator is one of the
\* two query intents
FirstBlockIsIntent ==
    /\ FencedBlocks # <<>>
    /\ LET o == JsonLoadsText(FencedBlocks[1]) IN
       /\ o.kind = "return"
       /\ o.value # JsonList
       /\ o.value.intent_type \in {"property_query", "property_image_query"}

\* C11: _extract_intent_from_response gives a structure only when the first
\* fenced JSON block of the response parses and its intent_type is
\* property_query or property_image_query, and then the structure is that
\* block with the user's message attached; in every other case, a null
\* response included, it gives None. Blocks after the first are not consulted
\* and no exception leaves it.
C11_FirstBlockDecides ==
    DetectionRan =>
        /\ c_out.kind = "return"
        /\ IF FirstBlockIsIntent
           THEN chat_intent =
                    [JsonLoadsText(FencedBlocks[1]).value
                        EXCEPT !.has_original_query = TRUE,
                               !.original_query = message]
           ELSE chat_intent = None
        /\ (c_op = "image" /\ c_out.value = WholeReply(NullResponse)) =>
                chat_intent = None

\* the first block does not parse and the second is a query intent: nothing
\* is found
C11_Witness ==
    /\ DetectionRan
    /\ Len(FencedBlocks) = 2
    /\ JsonLoadsText(FencedBlocks[1]).kind = "raise"
    /\ JsonLoadsText(FencedBlocks[2]) =
            Return([EmptyObject EXCEPT !.intent_type = "property_query"])
    /\ chat_intent = None

OrdinaryTextTurn ==
    /\ c_op = "text"
    /\ client
    /\ ~StartsWith(message, <<"PROPERTY_QUERY_CONFIRM:">>)

\* the characters of the chunks that were yielded one by one
RECURSIVE TypedText(_)
TypedText(out) ==
    IF out = <<>> THEN <<>> ELSE <<Head(out).c>> \o TypedText(Tail(out))

\* what the stream delivered: the contents of its chunks, joined
RECURSIVE Delivered(_)
Delivered(chunks) ==
    IF chunks = <<>>
    THEN <<>>
    ELSE (IF Head(chunks).has_content THEN Head(chunks).content ELSE <<>>)
            \o Delivered(Tail(chunks))

\* C13: in an ordinary text turn nothing is emitted until the token stream
\* has been consumed completely; then, if an intent was found, exactly one
\* chunk is emitted, holding the confirmation prompt and the intent payload,
\* and if none was found the characters of the reply are emitted in order and
\* their concatenation is the reply. The two shapes are never mixed.
C13_BufferedThenOneShape ==
    OrdinaryTextTurn =>
        /\ (cpc \in {"create", "consume"}) => emitted = <<>>
        /\ emitted # <<>> =>
                /\ stream.kind # "ok" \/ chunks_read = Len(stream.chunks)
                /\ \/ \A k \in 1..Len(emitted) : emitted[k].kind = "char"
                   \/ Len(emitted) = 1
        /\ (cpc = "typing") =>
                /\ chat_intent = None
                /\ \A k \in 1..Len(emitted) : emitted[k].kind = "char"
                /\ TypedText(emitted) = SubSeq(Expand(Delivered(stream.chunks)), 1, Len(emitted))
        /\ (cpc = "done" /\ stream.kind = "ok") =>
                IF chat_intent # None
                THEN /\ Len(emitted) = 1
                     /\ emitted[1].kind = "confirmation"
                     /\ emitted[1].payload = JsonDumps(chat_intent)
                     /\ emitted[1].message # ""
                ELSE /\ \A k \in 1..Len(emitted) : emitted[k].kind = "char"
                     /\ TypedText(emitted) = Expand(Delivered(stream.chunks))

\* a reply that arrived in three chunks and carried an intent: one
\* confirmation chunk, nothing typed
C13_Witness ==
    /\ OrdinaryTextTurn
    /\ cpc = "done"
    /\ stream.kind = "ok"
    /\ Len(stream.chunks) = 3
    /\ chat_intent # None
    /\ Len(emitted) = 1
    /\ emitted[1].kind = "confirmation"

\* the user's message, trimmed and case-folded, contains one of the words
\* that confirm a query
SaysYes(m) ==
    LET said == Strip(Lower(Expand(m))) IN
    \/ Contains(said, <<"que4", "ren4">>)
    \/ Contains(said, <<"kai1", "shi3", "cha2", "xun2">>)
    \/ Contains(said, <<"shi4", "de5">>)
    \/ Contains(said, <<"hao3", "de5">>)
    \/ Contains(said, <<"cha2", "xun2">>)
    \/ Contains(said, <<"sou1", "suo3">>)
    \/ Contains(said, <<"zhao3", "zhao3">>)

\* C14 (as stated): stream_chat_with_confirmation, called with a pending
\* intent and an affirmative message, runs SQL generation, execution and
\* summarization in that order, emits the final summary (or the no-results
\* or generation-failure message) and completes normally.
C14_AffirmativeRunsPipeline ==
    (c_op = "confirm" /\ cpc = "done" /\ SaysYes(message)) =>
        /\ c_out = Exhausted
        /\ qpc = "done"
        /\ q_ret.kind = "return"
        /\ intent_data = pending_intent
        /\ (sum_runs > 0 => exec_runs > 0)
        /\ emitted # <<>>

\* what stream_chat_text emits for a message as a fresh turn, given how the
\* model and the pipeline answered
FreshTurnOutput ==
    IF ~client
    THEN <<TextChunk(ServiceDownMsg)>>
    ELSE IF StartsWith(message, <<"PROPERTY_QUERY_CONFIRM:">>)
         THEN IF qpc = "idle"
              THEN <<TextChunk(ConfirmFormatMsg)>>
              ELSE <<QueryResultChunk(q_ret.value)>>
         ELSE IF stream.kind # "ok"
              THEN <<ErrorChunk(stream.error)>>
              ELSE LET reply == Delivered(stream.chunks)
                       found == ExtractIntent(Str(reply), message) IN
                   IF found # None
                   THEN <<ConfirmationChunk(TEXT_HEADER, found, TEXT_DEFAULT_CONFIRMATION)>>
                   ELSE [k \in 1..Len(Expand(reply)) |-> CharChunk(Expand(reply)[k])]

\* C15: stream_chat_with_confirmation, called with a pending intent and a
\* message that is not affirmative, discards the pending intent: the pipeline
\* does not run for it, and the chunks emitted are those stream_chat_text
\* emits for the same message as a fresh turn, intent detection included.
C15_NotAffirmativeIsFreshTurn ==
    /\ (c_op = "confirm" /\ ~SaysYes(message)) =>
            /\ qpc # "idle" =>
                    /\ StartsWith(message, <<"PROPERTY_QUERY_CONFIRM:">>)
                    /\ intent_data = JsonLoadsText(IntentJson(message)).value
            /\ (qpc = "idle" /\ cpc # "done") => gen_calls + exec_runs + sum_runs = 0
            /\ cpc = "done" => c_out = Exhausted
    /\ (cpc = "done" /\ (c_op = "text" \/ (c_op = "confirm" /\ ~SaysYes(message)))) =>
            emitted = FreshTurnOutput

\* "OK" is not a confirmation: the pending intent is dropped, the model is
\* asked again and its reply, which carries a new intent, is confirmed
C15_Witness ==
    /\ c_op = "confirm"
    /\ cpc = "done"
    /\ message = <<"O", "K">>
    /\ ~SaysYes(message)
    /\ pending_intent # None
    /\ chat_intent \notin {Pending, None}
    /\ chat_intent # pending_intent
    /\ qpc = "idle"
    /\ emitted = <<ConfirmationChunk(TEXT_HEADER, chat_intent, TEXT_DEFAULT_CONFIRMATION)>>

\* the search conditions an intent carries: query_suggestion for an intent
\* detected from an image, query_params for one detected from a text
ConditionsOf(intent) ==
    IF intent.intent_type = "property_image_query" /\ intent.has_query_suggestion
    THEN intent.query_suggestion
    ELSE IF intent.has_query_params THEN intent.query_params ELSE "{}"

\* the turn confirms a payload that a confirmation embedded
ConfirmsEmbeddedIntent ==
    /\ c_op = "text"
    /\ client
    /\ \E i \in EmbeddedIntents : message = <<"PROPERTY_QUERY_CONFIRM:">> \o JsonDumps(i)

\* C16 (as stated): chat_with_image returns one complete value and streams
\* nothing; an intent detected from an image gives the same confirmation as a
\* text intent, prompt and embedded payload, and confirming that payload
\* drives the pipeline with the conditions the image-derived intent carries,
\* as confirming a text intent does with its conditions.
C16_ImageIntentSameContract ==
    /\ (c_op = "image" /\ cpc = "done") =>
            /\ c_out.kind = "return"
            /\ emitted = <<>>
            /\ (chat_intent \notin {Pending, None}) =>
                    /\ c_out.value.kind = "confirmation"
                    /\ c_out.value.payload = JsonDumps(chat_intent)
    /\ (ConfirmsEmbeddedIntent /\ cpc = "done") =>
            /\ qpc = "done"
            /\ query_params = ConditionsOf(intent_data)
            /\ emitted = <<QueryResultChunk(q_ret.value)>>
            /\ q_ret.value.query_params = ConditionsOf(intent_data)

\* C17 (as stated): every public chat operation, stream_chat_text,
\* stream_chat_with_confirmation, chat_with_image, process_property_query and
\* stream_property_query_steps, ends by returning or emitting a value, for
\* every input and every failure of the model or the store; no exception
\* reaches the caller.
C17_NoExceptionEscapes ==
    /\ cpc = "done" =>
            /\ c_out.kind = "return"
            /\ c_op \in {"text", "confirm", "steps"} => c_out = Exhausted
    /\ qpc = "done" => q_ret.kind = "return"

(***************************************************************************)
(* Properties of the summarizer.                                           *)
(***************************************************************************)
\* C18: when execution returned at least one row and the summarization call
\* fails, the answer states that the query completed but processing its
\* results failed and carries the error text, and process_property_query still
\* returns success = true with the rows and found_count = the number of rows;
\* when the call succeeds the model's text is the answer, verbatim.
C18_SummaryFailureKeepsRows ==
    (qpc = "done" /\ sum_runs > 0) =>
        /\ q_ret.kind = "return"
        /\ q_ret.value.success = TRUE
        /\ q_ret.value.results = query_results.value
        /\ q_ret.value.found_count = Len(query_results.value)
        /\ Len(query_results.value) >= 1
        /\ sum_reply.kind \in {"api_error", "content"}
        /\ q_ret.value.formatted_answer =
                IF sum_reply.kind = "api_error"
                THEN <<"query completed, but processing the results failed: ",
                       sum_reply.content>>
                ELSE <<sum_reply.content>>

C18_Witness ==
    /\ qpc = "done"
    /\ sum_runs = 1
    /\ sum_reply = [kind |-> "api_error", content |-> "connection refused"]
    /\ q_ret.value.success
    /\ q_ret.value.found_count = 20
    /\ Len(q_ret.value.results) = 20
    /\ q_ret.value.formatted_answer[2] = "connection refused"

(***************************************************************************)
(* Properties of the validation of a parse result.                         *)
(***************************************************************************)
\* the type check of _validate_parsing_result has just been made on a
\* model-based result, and it failed: it is the only step so far that warns
TypeCheckFailed ==
    /\ ppc = "validate_price"
    /\ warnings # <<>>

\* C19 (as stated): validation never increases confidence; after each failed
\* check the confidence is at most its value before the check and never below
\* 0.1, for every starting confidence the model may report.
C19_NeverIncreasedAndFloored ==
    /\ (ppc \in {"validate_price", "done"} /\ result # Pending) =>
            result.confidence <= conf_before
    /\ TypeCheckFailed => result.confidence >= 10

\* C19 (amended): a failed check sets confidence to max(0.1, before -
\* penalty): it is never below 0.1 afterwards, it is not increased when it was
\* at least 0.1 before, and a confidence below 0.1 is raised to 0.1; a check
\* that passes leaves the confidence as it was.
C19_FlooredReduction ==
    /\ TypeCheckFailed =>
            /\ result.confidence >= 10
            /\ conf_before >= 10 => result.confidence <= conf_before
            /\ conf_before >= 40 => result.confidence = conf_before - 30
            /\ conf_before < 10 => result.confidence = 10
    /\ (ppc = "validate_price" /\ warnings = <<>>) => result.confidence = conf_before
    /\ (ppc = "done" /\ result # Pending) =>
            /\ result.confidence <= conf_before
            /\ result.confidence # conf_before => result.confidence >= 10

\* the model reported 0.0 and the type check failed: the confidence is 0.1
C19_Witness ==
    /\ TypeCheckFailed
    /\ conf_before = 0
    /\ result.confidence = 10

(***************************************************************************)
(* Properties of authentication.                                           *)
(***************************************************************************)
\* C20 (as stated): listing CRUD, text parsing and chat operations are
\* performed only for authenticated requests: a request is served only if it
\* presents a token that verifies and whose session record exists and is not
\* expired, and a request that presents no credentials is rejected.
C20_OnlyAuthenticatedServed ==
    auth_response # Pending =>
        /\ auth_response.status = 200 =>
                /\ request.credentials # [credentials |-> FALSE]
                /\ request.credentials.signed
                /\ request.credentials.exp >= now
                /\ auth_sessions[HashToken(request.credentials)].exists
                /\ auth_sessions[HashToken(request.credentials)].expires_at >= now
        /\ request.credentials = [credentials |-> FALSE] => auth_response.status = 401

\* the type check of _validate_parsing_result has just been made on a result
\* whose stated type is rent or sale
TypeChecked ==
    /\ ppc = "validate_price"
    /\ result.property_type \in {"rent", "sale"}

\* the keyword score of the stated type and of the other type
StatedScore ==
    IF result.property_type = "rent"
    THEN CalculateKeywordScore(text, RENT_KEYWORDS)
    ELSE CalculateKeywordScore(text, SALE_KEYWORDS)

OtherScore ==
    IF result.property_type = "rent"
    THEN CalculateKeywordScore(text, SALE_KEYWORDS)
    ELSE CalculateKeywordScore(text, RENT_KEYWORDS)

\* the largest number of the text speaks against the stated type: above
\* 100000 for a rent, at most 50000 for a sale
PriceAgainstStatedType ==
    /\ Numbers(text) # <<>>
    /\ IF result.property_type = "rent"
       THEN MaxOf(Numbers(text)) > 100000 * 100
       ELSE MaxOf(Numbers(text)) <= 50000 * 100

TypeCheckShouldFail == OtherScore > StatedScore /\ PriceAgainstStatedType

\* C21: the type-consistency check fails exactly when the other type's
\* keyword score is strictly higher than the stated type's and the price
\* context does not support the stated type; exactly then a type warning is
\* appended and confidence becomes max(0.1, confidence - 0.3); otherwise no
\* type warning is added and the check leaves confidence unchanged.
C21_TypeCheckFailsExactlyWhen ==
    TypeChecked =>
        IF TypeCheckShouldFail
        THEN /\ Len(warnings) = 3
             /\ warnings[1][1] = "type validation: "
             /\ result.confidence = (IF conf_before - 30 >= 10 THEN conf_before - 30 ELSE 10)
        ELSE /\ warnings = <<>>
             /\ result.confidence = conf_before

\* a sale listing that the model called a rent: the warning is there and
\* 0.8 became 0.5
C21_Witness ==
    /\ TypeChecked
    /\ TypeCheckShouldFail
    /\ result.property_type = "rent"
    /\ conf_before = 80
    /\ result.confidence = 50
    /\ Len(warnings) = 3

\* validation of a model-based result has finished
Validated == ppc = "done" /\ result # Pending

\* the price of the result lies outside the plausible range of its type:
\* [100, 50000] for a rent, [1, 10000] for a sale
PriceOutOfRange ==
    /\ result.price.tag = "number"
    /\ IF result.property_type = "rent"
       THEN result.price.v < 100 * 100 \/ result.price.v > 50000 * 100
       ELSE result.price.v < 1 * 100 \/ result.price.v > 10000 * 100

HasPriceWarning ==
    \E k \in 1..Len(result.validation_warnings) :
        result.validation_warnings[k][1] = "price validation: "

\* C22 (as stated): a price outside the plausible range of its type gives an
\* advisory warning in validation_warnings and reduces confidence by 0.2, and
\* the result is still returned; a price inside the range, or no price, adds
\* no warning and leaves confidence unchanged.
C22_OutOfRangePriceWarns ==
    Validated =>
        /\ p_out = Return(result)
        /\ IF PriceOutOfRange
           THEN /\ HasPriceWarning
                /\ result.confidence =
                        (IF conf_before - 20 >= 10 THEN conf_before - 20 ELSE 10)
           ELSE /\ ~HasPriceWarning
                /\ result.confidence = conf_before

(***************************************************************************)
(* Properties of the fallback path.                                        *)
(***************************************************************************)
\* the call ended through _create_fallback_result
FallbackDone == ppc = "done" /\ result = Pending

\* the number of rent keywords and of sale keywords found in the text
RentCount == CountFrom(text, RENT_KEYWORDS, 1)

SaleCount == CountFrom(text, SALE_KEYWORDS, 1)

\* C23 (as stated): the fallback extractor guesses the type by comparing the
\* number of rent keywords and of sale keywords found in the text, and when
\* the two counts are equal, both zero included, the guessed type is sale.
C23_TieGoesToSale ==
    (FallbackDone /\ ~fb_fault) =>
        /\ p_out.kind = "return"
        /\ p_out.value.property_type = (IF RentCount > SaleCount THEN "rent" ELSE "sale")

\* C24 (as stated): every result of the fallback path has confidence exactly
\* 0.3, exactly one warning, the one noting that fallback was used, and
\* is_fallback = true, also when the rule-based extraction itself raised.
C24_FallbackResultFixed ==
    FallbackDone =>
        /\ p_out.kind = "return"
        /\ p_out.value.confidence = 30
        /\ p_out.value.validation_warnings =
                <<<<"fallback was used, check the result by hand">>>>
        /\ p_out.value.is_fallback = TRUE

\* a field of the returned result, property_type or confidence, was filled in
\* by the program: the whole result on the fallback path, and on the
\* model-based path a field that the model's JSON object did not have
FilledInByProgram ==
    \/ result = Pending
    \/ llm_reply.body.property_type.tag = "missing"
    \/ llm_reply.body.confidence.tag = "missing"

\* C25 (as stated): no parse result holds a value the program substituted
\* without marking it: whenever property_type or confidence of the returned
\* result was not supplied by the model but filled in by the program, the
\* result has is_fallback = true.
C25_SubstitutionIsMarked ==
    (ppc = "done" /\ FilledInByProgram) =>
        /\ p_out.kind = "return"
        /\ p_out.value.is_fallback = TRUE

(***************************************************************************)
(* Properties of the stage order of process_property_query.                *)
(***************************************************************************)
\* a run of process_property_query is under way or has just returned
InRun == qpc \in {"generate", "execute", "summarize", "done"}

\* the generation stage of the run is over
Generated == InRun /\ qpc # "generate"

\* the generation stage produced a statement
GenerationSucceeded == sql_data \notin {Pending, None}

ConversationIdle == awaiting = None

\* a chat turn has entered process_property_query
TurnExecutes == c_op \in {"text", "confirm"} /\ qpc # "idle"

\* C27: a chat turn runs the query pipeline only when the conversation was
\* awaiting a confirmation; no message received in Idle, whatever its
\* content, causes SQL generation or execution.
C27_ExecutingOnlyAfterConfirmationPrompt ==
    (c_op \in {"text", "confirm"} /\ ConversationIdle) =>
        /\ ~TurnExecutes
        /\ gen_calls = 0
        /\ exec_runs = 0
        /\ db_executes = 0

(***************************************************************************)
(* Properties of stream_property_query_steps.                              *)
(***************************************************************************)
\* what process_property_query returns for an intent when the model and the
\* store behave as given: lines 550-595, the three stages in one expression
ProcessPropertyQueryValue(cl, intent, reply, st, summary) ==
    LET qp == GetQueryParams(intent)
        sd == GenerateSqlQuery(cl, reply).value
    IN IF sd = None
       THEN GenerationFailure(qp)
       ELSE LET rows == ExecuteSqlQuery(sd, st).out.value IN
            IF Len(rows) = 0
            THEN ZeroResults(qp, sd)
            ELSE FullResults(qp, sd, rows, ProcessQueryResults(cl, summary).value)

\* stream_property_query_steps has ended
StepsDone == c_op = "steps" /\ cpc = "done"

\* the i-th chunk is the marker of a step with a status
IsMarker(i, step, status) ==
    /\ i <= Len(emitted)
    /\ emitted[i].kind = "step"
    /\ emitted[i].step = step
    /\ emitted[i].status = status

\* every start marker is followed at once by the complete or the error
\* marker of its step
StartsAreClosed ==
    \A i \in 1..Len(emitted) :
        emitted[i].status = "start" =>
            \/ IsMarker(i + 1, emitted[i].step, "complete")
            \/ IsMarker(i + 1, emitted[i].step, "error")

\* C28: stream_property_query_steps reports the run that
\* process_property_query makes for the same intent, model and store:
\* param_analysis start and complete, sql_generation start, then either the
\* sql_generation error, exactly when process_property_query reports the
\* generation failure, or sql_generation complete, sql_execution start and
\* complete with the row count, and then final_answer complete with the fixed
\* advisory exactly when the rows are empty, otherwise answer_generation
\* start and complete with the same answer text; every start marker is
\* followed by a complete or error marker.
C28_StepsSameContract ==
    StepsDone =>
        LET v == ProcessPropertyQueryValue(client, pending_intent, sql_reply, store,
                                           sum_reply)
            failed == v.success = FALSE
        IN /\ c_out = Exhausted
           /\ StartsAreClosed
           /\ IsMarker(1, "param_analysis", "start")
           /\ IsMarker(2, "param_analysis", "complete")
           /\ emitted[2].detail = v.query_params
           /\ IsMarker(3, "sql_generation", "start")
           /\ IsMarker(4, "sql_generation", "error") <=> failed
           /\ failed => (Len(emitted) = 4 /\ emitted[4].detail = v.error
                         /\ v.error = GenFailMsg)
           /\ ~failed =>
                /\ IsMarker(4, "sql_generation", "complete")
                /\ emitted[4].detail = v.sql_info
                /\ IsMarker(5, "sql_execution", "start")
                /\ IsMarker(6, "sql_execution", "complete")
                /\ emitted[6].detail = v.found_count
                /\ IsMarker(7, "final_answer", "complete") <=> v.found_count = 0
                /\ v.found_count = 0 =>
                     (Len(emitted) = 7 /\ emitted[7].detail = v.message
                      /\ v.message = NoResultMsg)
                /\ v.found_count > 0 =>
                     /\ Len(emitted) = 8
                     /\ IsMarker(7, "answer_generation", "start")
                     /\ IsMarker(8, "answer_generation", "complete")
                     /\ emitted[8].detail = v.formatted_answer

\* a run reported in full: rows were found and the answer text is the one
\* process_property_query returns
C28_Witness ==
    /\ StepsDone
    /\ Len(emitted) = 8
    /\ IsMarker(8, "answer_generation", "complete")
    /\ sum_reply.kind = "content"
    /\ emitted[8].detail = <<sum_reply.content>>

\* a run whose generation failed, reported by the error marker
C28_FailureReported ==
    /\ StepsDone
    /\ Len(emitted) = 4
    /\ IsMarker(4, "sql_generation", "error")

(***************************************************************************)
(* Properties of the database session of _execute_sql_query.               *)
(***************************************************************************)
\* _execute_sql_query has returned in this run or direct call
ExecutorReturned == exec_runs > 0

\* the run is at a call of the model: SQL generation or summarization
AtModelCall == qpc \in {"generate", "summarize"}

\* C29: every database session that _execute_sql_query acquires is released
\* before it returns, on every path (rejected statement, error of the store,
\* malformed sql_data, rows returned), and no session is open while a call
\* of the model is in progress.
C29_SessionReleased ==
    /\ ExecutorReturned => sessions_open = 0
    /\ AtModelCall => sessions_open = 0

\* the executor acquired a session, the statement failed in the store, and
\* the executor has returned
C29_Witness ==
    /\ ExecutorReturned
    /\ store.session_ok /\ ~store.exec_ok
    /\ db_executes = 1
    /\ sessions_open = 0

\* the executor acquired a session and returned rows; the summarization call
\* is about to be made
C29_BeforeSummary ==
    /\ qpc = "summarize"
    /\ store.session_ok
    /\ db_executes = 1
    /\ sessions_open = 0

(***************************************************************************)
(* Properties of the affirmative test of stream_chat_with_confirmation.    *)
(***************************************************************************)
\* the user's message negates one of the words that confirm a query: the
\* word follows bu4 ("not")
Declines(m) ==
    LET said == Strip(Lower(Expand(m))) IN
    \E k \in 1..Len(CONFIRM_KEYWORDS) : Contains(said, <<"bu4">> \o CONFIRM_KEYWORDS[k])

\* the user's message expresses a confirmation: it has a confirming word and
\* does not negate it
ExpressesConfirmation(m) == SaysYes(m) /\ ~Declines(m)

\* stream_chat_with_confirmation handled the message as a fresh turn of
\* stream_chat_text
HandledAsFreshTurn ==
    /\ c_out = Exhausted
    /\ emitted = FreshTurnOutput

\* C30: with an intent pending, a message is taken as affirmative exactly
\* when it expresses a confirmation by one of the fixed keywords; a message
\* that declines by negating a keyword is not affirmative, is handled as a
\* fresh turn and never has the pending intent executed.
C30_AffirmativeOnlyIfConfirms ==
    (c_op = "confirm" /\ cpc = "done") =>
        /\ HandledAsFreshTurn <=> ~ExpressesConfirmation(message)
        /\ Declines(message) => (qpc = "idle" /\ gen_calls = 0 /\ exec_runs = 0)

====
